---- MODULE Spec2Model ----
(***************************************************************************)
(* Model of clients/cppsal/include/sal_data.h: the SAL attribute classes   *)
(* (Null, Atomic<T>, IArray / Array<T> / BoolArray, Dictionary), their     *)
(* encode / encode_summary / decode members and the decode() dispatcher.   *)
(*                                                                         *)
(* Program state: the attribute objects the application holds (heap), the  *)
(* wire object last produced by an encoder or handed over by the transport *)
(* (wire), and the outcome of the last library call (ret).  Every library  *)
(* call is one action.                                                     *)
(*                                                                         *)
(* uint64_t quantities (shape extents, strides, buffer lengths, flattened  *)
(* indices) are kept as 8 little-endian bytes so that arithmetic is done   *)
(* modulo 2^64 exactly as the C++ does it.                                 *)
(***************************************************************************)
EXTENDS Integers, Sequences, FiniteSets, TLC

VARIABLES heap, wire, ret, writes

vars == <<heap, wire, ret, writes>>

(***************************************************************************)
(* Fixed-width integers                                                    *)
(***************************************************************************)

\* number of values of one byte; uint8_t m_dimension counts modulo this
ByteRange == 256

\* sizeof(uint64_t): the number of bytes of a ShapeType element
U64Bytes == 8

RECURSIVE LEBytes(_, _)
\* the n low-order bytes of the two's complement image of integer v, least
\* significant first (the memory image of v in an n-byte integer)
LEBytes(v, n) ==
    IF n = 0 THEN <<>> ELSE <<v % ByteRange>> \o LEBytes(v \div ByteRange, n - 1)

\* a uint64_t holding the natural number n
U64(n) == LEBytes(n, U64Bytes)

U64Zero == U64(0)

U64One == U64(1)

RECURSIVE MulColumn(_, _, _, _)
\* sum of a[i] * b[k + 1 - i] over i = 1..k: column k of the schoolbook product
MulColumn(a, b, k, i) ==
    IF i > k THEN 0 ELSE a[i] * b[k + 1 - i] + MulColumn(a, b, k, i + 1)

RECURSIVE MulCarry(_, _, _, _, _)
\* the bytes k..n of a * b, carry being the carry into column k
MulCarry(a, b, k, n, carry) ==
    IF k > n THEN <<>>
    ELSE LET c == MulColumn(a, b, k, 1) + carry
         IN  <<c % ByteRange>> \o MulCarry(a, b, k + 1, n, c \div ByteRange)

\* the uint64_t u is below 2^15
Short64(u) == \A k \in 3..U64Bytes : u[k] = 0 /\ u[2] < 128

\* uint64_t multiplication: the low 8 bytes of the product (two operands
\* below 2^15 are multiplied as numbers)
Mul64(a, b) ==
    IF Short64(a) /\ Short64(b)
    THEN LEBytes((a[1] + ByteRange * a[2]) * (b[1] + ByteRange * b[2]), U64Bytes)
    ELSE MulCarry(a, b, 1, U64Bytes, 0)

RECURSIVE AddCarry(_, _, _, _)
AddCarry(a, b, k, carry) ==
    IF k > U64Bytes THEN <<>>
    ELSE LET c == a[k] + b[k] + carry
         IN  <<c % ByteRange>> \o AddCarry(a, b, k + 1, c \div ByteRange)

\* uint64_t addition modulo 2^64
Add64(a, b) == AddCarry(a, b, 1, 0)

RECURSIVE Less64From(_, _, _)
Less64From(a, b, k) ==
    IF k = 0 THEN FALSE
    ELSE IF a[k] # b[k] THEN a[k] < b[k] ELSE Less64From(a, b, k - 1)

\* a < b on uint64_t
Less64(a, b) == Less64From(a, b, U64Bytes)

\* the uint64_t u is below 2^31, so it is a number TLC can hold
Small64(u) == u[5] = 0 /\ u[6] = 0 /\ u[7] = 0 /\ u[8] = 0 /\ u[4] < 128

\* the natural number held by a Small64 uint64_t
Nat64(u) == u[1] + ByteRange * (u[2] + ByteRange * (u[3] + ByteRange * u[4]))

(***************************************************************************)
(* Type registry                                                           *)
(***************************************************************************)

\* the native types DT the templates are instantiated with
IntTypes == {"int8_t", "int16_t", "int32_t", "int64_t",
             "uint8_t", "uint16_t", "uint32_t", "uint64_t"}

FloatTypes == {"float", "double"}

NativeTypes == IntTypes \cup FloatTypes \cup {"bool", "std::string"}

\* template <typename DT> AttributeType to_dtype()
to_dtype(DT) ==
    CASE DT = "int64_t" -> "ATTR_INT64"
      [] DT = "int32_t" -> "ATTR_INT32"
      [] DT = "int16_t" -> "ATTR_INT16"
      [] DT = "int8_t" -> "ATTR_INT8"
      [] DT = "uint64_t" -> "ATTR_UINT64"
      [] DT = "uint32_t" -> "ATTR_UINT32"
      [] DT = "uint16_t" -> "ATTR_UINT16"
      [] DT = "uint8_t" -> "ATTR_UINT8"
      [] DT = "float" -> "ATTR_FLOAT32"
      [] DT = "double" -> "ATTR_FLOAT64"
      [] DT = "bool" -> "ATTR_BOOL"
      [] DT = "std::string" -> "ATTR_STRING"
      [] DT = "Dictionary" -> "ATTR_DICTIONARY"
      [] DT = "IArray" -> "ATTR_ARRAY"
      [] DT = "Null" -> "ATTR_NULL"
      [] OTHER -> "SALException"

\* template <typename DT> const char* to_dtype_name()
to_dtype_name(DT) ==
    CASE DT = "int64_t" -> "int64"
      [] DT = "int32_t" -> "int32"
      [] DT = "int16_t" -> "int16"
      [] DT = "int8_t" -> "int8"
      [] DT = "uint64_t" -> "uint64"
      [] DT = "uint32_t" -> "uint32"
      [] DT = "uint16_t" -> "uint16"
      [] DT = "uint8_t" -> "uint8"
      [] DT = "float" -> "float32"
      [] DT = "double" -> "float64"
      [] DT = "bool" -> "bool"
      [] DT = "std::string" -> "string"
      [] OTHER -> "SALException"

\* sizeof(T) of the fixed-size element types
SizeOf(DT) ==
    CASE DT \in {"int8_t", "uint8_t", "bool"} -> 1
      [] DT \in {"int16_t", "uint16_t"} -> 2
      [] DT \in {"int32_t", "uint32_t", "float"} -> 4
      [] DT \in {"int64_t", "uint64_t", "double"} -> 8

\* T(): the value a default-constructed T holds
DefaultValue(DT) ==
    CASE DT = "std::string" -> ""
      [] DT = "bool" -> FALSE
      [] OTHER -> 0

(***************************************************************************)
(* Wire values: Poco::Dynamic::Var, Poco::JSON::Object, Poco::JSON::Array  *)
(*                                                                         *)
(* A Var is a record whose k is its JSON kind; the value held is s (a      *)
(* string), b (a boolean), n (a number, of native type t), a (the sequence *)
(* of an array's elements) or o (the function from an object's keys to its *)
(* members).  Floating point values are limited to whole numbers and are   *)
(* written as integers.                                                    *)
(***************************************************************************)

\* an empty Var: JSON null
JNull == [k |-> "null"]

\* a Poco::SharedPtr holding no object
NullPtr == [k |-> "nullptr"]

JStr(s) == [k |-> "str", s |-> s]

JBool(b) == [k |-> "bool", b |-> b]

JNum(DT, n) == [k |-> "num", t |-> DT, n |-> n]

JArr(s) == [k |-> "arr", a |-> s]

JObj(f) == [k |-> "obj", o |-> f]

\* the object with no member
EmptyMembers == [key \in {} |-> JNull]

\* the Var json->set(key, value) stores for a value of native type DT
VarOf(DT, value) ==
    CASE DT = "std::string" -> JStr(value)
      [] DT = "bool" -> JBool(value)
      [] OTHER -> JNum(DT, value)

\* outcome of a call that may throw: a value, or the exception thrown
Ok(v) == [ok |-> TRUE, v |-> v]

Throw(e) == [ok |-> FALSE, v |-> e]

\* the values a DT can hold, as far as whole numbers go
InRange(DT, n) ==
    CASE DT = "int8_t" -> -128 <= n /\ n <= 127
      [] DT = "int16_t" -> -32768 <= n /\ n <= 32767
      [] DT = "uint8_t" -> 0 <= n /\ n <= 255
      [] DT = "uint16_t" -> 0 <= n /\ n <= 65535
      [] DT \in {"uint32_t", "uint64_t"} -> 0 <= n
      [] OTHER -> TRUE

Digit(d) ==
    CASE d = 0 -> "0" [] d = 1 -> "1" [] d = 2 -> "2" [] d = 3 -> "3"
      [] d = 4 -> "4" [] d = 5 -> "5" [] d = 6 -> "6" [] d = 7 -> "7"
      [] d = 8 -> "8" [] d = 9 -> "9"

RECURSIVE NatText(_)
NatText(n) == IF n < 10 THEN Digit(n) ELSE NatText(n \div 10) \o Digit(n % 10)

\* the decimal text of an integer, as Var::convert<std::string> writes it
IntText(n) == IF n < 0 THEN "-" \o NatText(0 - n) ELSE NatText(n)

\* the integers whose decimal text the model can read back
Numerals == {-1, 0, 1, 5, 12, 300}

\* Var::convert<DT>() of a Var holding a string
ParseText(DT, s) ==
    IF DT = "bool"
    THEN CASE s = "true" -> Ok(TRUE)
           [] s = "false" -> Ok(FALSE)
           [] OTHER -> Throw("Poco::Exception")
    ELSE IF \E n \in Numerals : IntText(n) = s /\ InRange(DT, n)
         THEN Ok(CHOOSE n \in Numerals : IntText(n) = s)
         ELSE Throw("Poco::Exception")

\* Poco::Dynamic::Var::convert<DT>(): the held value as a DT, or the Poco
\* exception thrown (empty Var, value out of range, text that is no number,
\* a holder with no such conversion)
Convert(var, DT) ==
    CASE var.k \in {"null", "nullptr"} -> Throw("Poco::Exception")
      [] var.k = "str" ->
            IF "b64" \in DOMAIN var
            THEN IF DT = "std::string" THEN Ok("<base64 text>")
                 ELSE Throw("Poco::Exception")
            ELSE IF DT = "std::string" THEN Ok(var.s) ELSE ParseText(DT, var.s)
      [] var.k = "bool" ->
            CASE DT = "bool" -> Ok(var.b)
              [] DT = "std::string" -> Ok(IF var.b THEN "true" ELSE "false")
              [] OTHER -> Ok(IF var.b THEN 1 ELSE 0)
      [] var.k = "num" ->
            CASE DT = "bool" -> Ok(var.n # 0)
              [] DT = "std::string" -> Ok(IntText(var.n))
              [] OTHER -> IF InRange(DT, var.n) THEN Ok(var.n)
                          ELSE Throw("Poco::Exception")
      [] var.k \in {"arr", "obj"} ->
            IF DT = "std::string" THEN Ok("<json text>")
            ELSE Throw("Poco::Exception")

\* json->has(key)
Has(json, key) == key \in DOMAIN json.o

\* json->get(key): the member, or an empty Var
Get(json, key) == IF Has(json, key) THEN json.o[key] ELSE JNull

\* json->getValue<DT>(key); json itself may be a null pointer
GetValue(json, key, DT) ==
    IF json.k # "obj" THEN Throw("Poco::Exception")
    ELSE Convert(Get(json, key), DT)

\* json->getObject(key): the member object, or a null pointer
GetObject(json, key) ==
    IF json.k # "obj" THEN Throw("Poco::Exception")
    ELSE Ok(IF Get(json, key).k = "obj" THEN Get(json, key) ELSE NullPtr)

\* json->getArray(key): the member array, or a null pointer
GetArray(json, key) ==
    IF json.k # "obj" THEN Throw("Poco::Exception")
    ELSE Ok(IF Get(json, key).k = "arr" THEN Get(json, key) ELSE NullPtr)

\* a reader for which no member is null
IsNullNever(json, key) == FALSE

\* contents->isNull(key)
IsNull(json, key) == Get(json, key).k = "null"

\* contents->isObject(key)
IsObject(json, key) == Get(json, key).k = "obj"

\* json->isArray(key)
IsArray(json, key) == Get(json, key).k = "arr"

(***************************************************************************)
(* Attribute, Null, Atomic<T>                                              *)
(***************************************************************************)

\* Attribute::Attribute: the members every attribute object has
Attribute(kind, DT, _type, _type_name) ==
    [kind |-> kind, T |-> DT, m_type |-> _type, m_type_name |-> _type_name,
     m_is_summary |-> FALSE]

\* Null::Null
Null == Attribute("Null", "Null", "ATTR_NULL", "null")

\* Atomic<T>::Atomic(T _value)
Atomic(DT, _value) ==
    [a \in {"m_value"} |-> _value]
        @@ Attribute("Atomic", DT, to_dtype(DT), to_dtype_name(DT))

is_null(o) == o.m_type = "ATTR_NULL"

is_boolean(o) == o.m_type = "ATTR_BOOL"

is_array(o) == o.m_type = "ATTR_ARRAY"

is_string(o) == o.m_type = "ATTR_STRING"

is_object(o) == o.m_type = "ATTR_DICTIONARY"

is_data_object(o) == o.m_type = "ATTR_DATA_OBJECT"

\* an is_number that takes bool for a number, as C++ arithmetic does
IsNumberArithmetic(o) ==
    ~(is_array(o) \/ is_string(o) \/ is_null(o) \/ is_object(o)
        \/ is_data_object(o))

is_number(o) ==
    ~(is_array(o) \/ is_string(o) \/ is_boolean(o) \/ is_null(o)
        \/ is_object(o) \/ is_data_object(o))

is_atomic(o) == ~(is_array(o) \/ is_object(o) \/ is_null(o))

\* Null::encode
NullEncode(o) == JObj(("type" :> JStr(o.m_type_name)) @@ ("value" :> JNull))

\* Atomic<T>::encode
AtomicEncode(o) ==
    JObj(("type" :> JStr(o.m_type_name)) @@ ("value" :> VarOf(o.T, o.m_value)))

\* the type check of Atomic<T>::decode: the wire type is not this class's
\* a decoder without the type check
AtomicTypeMismatchSkipped(_type, DT) == FALSE

AtomicTypeMismatch(_type, DT) == _type # to_dtype_name(DT)

\* a decoder that leaves the value of the wire object aside
AtomicDecodeDefault(DT, json) == Ok(Atomic(DT, DefaultValue(DT)))

\* Atomic<T>::decode: the new instance, or the exception that leaves the
\* function.  Whatever is thrown inside the try block is caught by
\* catch (...), whose handler stringifies json (throwing itself when json is
\* a null pointer) and throws SALException.
AtomicDecode(DT, json) ==
    LET _type == GetValue(json, "type", "std::string")
        _value == GetValue(json, "value", DT)
    IN  IF _type.ok /\ ~AtomicTypeMismatch(_type.v, DT) /\ _value.ok
        THEN Ok(Atomic(DT, _value.v))
        ELSE IF json.k = "nullptr" THEN Throw("Poco::Exception")
             ELSE Throw("SALException")

(***************************************************************************)
(* IArray, Array<T>, BoolArray                                             *)
(***************************************************************************)

\* outcome of a member that may also run into undefined behaviour or never
\* return: status is "ok", the exception thrown, "crash" or "no_exit"; oob
\* tells whether a position outside a sequence was read or written
Result(status, v, oob) == [status |-> status, v |-> v, oob |-> oob]

\* what an access outside a std::vector can do in a build: stop the process,
\* or go unnoticed (a read then yields 0)
UBOutcomes == {"crash", "continue"}

\* uint8_t m_dimension = _shape.size()
Dimension(_shape) == Len(_shape) % ByteRange

RECURSIVE StridesDown(_, _, _)
\* the while loop of IArray::IArray: acc holds m_strides[i + 1 ..], and
\* m_strides[i] = m_strides[i + 1] * m_shape[i + 1] is put in front of it
StridesDown(_shape, i, acc) ==
    IF i = 0 THEN acc
    ELSE StridesDown(_shape, i - 1, <<Mul64(acc[1], _shape[i + 1])>> \o acc)

\* IArray::IArray(ShapeType _shape).  With m_dimension = 0 the statement
\* m_strides[i] = 1 is executed with i = -1 on an empty vector.
IArray(_shape) ==
    LET m_dimension == Dimension(_shape)
    IN  [m_dimension |-> m_dimension,
         m_shape |-> _shape,
         m_strides |-> IF m_dimension = 0 THEN <<>>
                       ELSE StridesDown(_shape, m_dimension - 1, <<U64One>>),
         oob |-> m_dimension = 0]

RECURSIVE Product(_, _, _)
\* element_size of Array<T>::Array: the uint64_t product of the extents
\* _shape[lo .. hi].  The loop multiplies them one after the other; the
\* product modulo 2^64 does not depend on the grouping, and it is taken by
\* halves here.
Product(_shape, lo, hi) ==
    IF lo > hi THEN U64One
    ELSE IF lo = hi THEN Mul64(U64One, _shape[lo])
         ELSE Mul64(Product(_shape, lo, (lo + hi) \div 2),
                    Product(_shape, (lo + hi) \div 2 + 1, hi))

\* the IEEE-754 image of the whole numbers the model's floats take, least
\* significant byte first
FloatImage(DT, v) ==
    IF DT = "float"
    THEN CASE v = 0 -> <<0, 0, 0, 0>>
           [] v = 1 -> <<0, 0, 128, 63>>
           [] v = 2 -> <<0, 0, 0, 64>>
           [] v = 3 -> <<0, 0, 64, 64>>
    ELSE CASE v = 0 -> <<0, 0, 0, 0, 0, 0, 0, 0>>
           [] v = 1 -> <<0, 0, 0, 0, 0, 0, 240, 63>>
           [] v = 2 -> <<0, 0, 0, 0, 0, 0, 0, 64>>
           [] v = 3 -> <<0, 0, 0, 0, 0, 0, 8, 64>>

\* an element of std::vector<T> data: a string for T = std::string, and for
\* the other T the sizeof(T) bytes the value v occupies in the buffer, least
\* significant byte first
Element(DT, v) ==
    CASE DT = "std::string" -> v
      [] DT \in FloatTypes -> FloatImage(DT, v)
      [] OTHER -> LEBytes(v, SizeOf(DT))

\* T(): the element data.resize fills the buffer with
DefaultElement(DT) == Element(DT, DefaultValue(DT))

\* the longest buffer the process can allocate, in elements
MemoryLimit == 4096

\* Array<T>::Array(ShapeType _shape, AttributeType _type, _type_name): the
\* new instance, std::bad_alloc from data.resize, or the crash of the
\* out-of-range write of IArray::IArray
ArrayNew(DT, _shape, _type, _type_name, ub) ==
    LET base == IArray(_shape)
        element_size == Product(_shape, 1, Len(_shape))
    IN  IF base.oob /\ ub = "crash" THEN Result("crash", NullPtr, TRUE)
        ELSE IF ~Small64(element_size) \/ Nat64(element_size) > MemoryLimit
             THEN Result("std::exception", NullPtr, base.oob)
             ELSE Result("ok",
                         [m_dimension |-> base.m_dimension,
                          m_shape |-> base.m_shape,
                          m_strides |-> base.m_strides,
                          m_element_type |-> _type,
                          m_element_type_name |-> _type_name,
                          data |-> [i \in 1..Nat64(element_size) |-> DefaultElement(DT)]]
                             @@ Attribute("Array", DT, "ATTR_ARRAY", "array"),
                         base.oob)

\* Array<T>::Array(ShapeType _shape)
Array(DT, _shape, ub) == ArrayNew(DT, _shape, to_dtype(DT), to_dtype_name(DT), ub)

\* BoolArray::BoolArray(const ShapeType _shape)
BoolArray(_shape, ub) == ArrayNew("uint8_t", _shape, "ATTR_BOOL", "bool", ub)

\* Array<T>::size
size(o) == Len(o.data)

\* Array<T>::byte_size
byte_size(o) == Len(o.data) * SizeOf(o.T)

\* Array<T>::operator()(row, column): the flattened index it addresses
FlatIndex2(o, row, column) == Add64(Mul64(row, o.m_strides[1]), column)

\* the largest uint64_t: what 0 - 1UL is
U64Max == [k \in 1..U64Bytes |-> ByteRange - 1]

\* the number of indices Array<T>::at takes
MaxAtDimensions == 10

\* the bounds check of Array<T>::at on dimension i (counted from 1):
\* dim_index[i] < 0, or static_cast<uint64_t>(dim_index[i]) > m_shape[i] - 1UL
\* with the subtraction taken in uint64_t
OutOfBounds(o, dim_index, i) ==
    \/ dim_index[i] < 0
    \/ Less64(Add64(o.m_shape[i], U64Max), U64(dim_index[i]))

RECURSIVE ElementIndex(_, _, _, _)
\* the for loop of Array<T>::at from dimension i on: the first index the
\* bounds check rejects throws, else
\* element_index += dim_index[i] * m_strides[i]
ElementIndex(o, dim_index, i, element_index) ==
    IF i > o.m_dimension THEN Ok(element_index)
    ELSE IF OutOfBounds(o, dim_index, i) THEN Throw("std::out_of_range")
    ELSE ElementIndex(o, dim_index, i + 1,
                      Add64(element_index,
                            Mul64(U64(dim_index[i]), o.m_strides[i])))

\* the body of Array<T>::at: v is the element the reference returned is to
AtBody(o, dim_index, ub) ==
    IF o.m_dimension > MaxAtDimensions
    THEN Result("std::out_of_range", NullPtr, FALSE)
    ELSE LET element_index == ElementIndex(o, dim_index, 1, U64Zero)
         IN  IF ~element_index.ok THEN Result(element_index.v, NullPtr, FALSE)
             ELSE IF Small64(element_index.v)
                        /\ Nat64(element_index.v) < Len(o.data)
                  THEN Result("ok", element_index.v, FALSE)
                  ELSE IF ub = "crash" THEN Result("crash", NullPtr, TRUE)
                       ELSE Result("ok", element_index.v, TRUE)

\* the exception specification throw() of Array<T>::at: an exception the
\* body throws cannot leave the function, std::unexpected is called and
\* the process ends in std::terminate
NoThrow(r) ==
    IF r.status \in {"ok", "crash", "no_exit"} THEN r
    ELSE Result("terminate", r.v, r.oob)

\* Array<T>::at(i0, ..., i9)
at(o, dim_index, ub) == NoThrow(AtBody(o, dim_index, ub))

\* Array<T>::data_at(i0, ..., i9): std::addressof(this->at(i0, ..., i9))
data_at(o, dim_index, ub) == at(o, dim_index, ub)

\* Array<T>::encoding
encoding(o) == IF o.m_element_type_name = "string" THEN "list" ELSE "base64"

\* the values a uint8_t loop counter takes
CounterValues == 0..(ByteRange - 1)

\* the loop `for (uint8_t i = 0; i < length; i++)` exits when i reaches
\* length.  It does not for a length no uint8_t holds: the counter goes from
\* ByteRange - 1 back to 0 and the loop starts over, without end.
LoopExits(length) == length \in CounterValues

\* Array<T>::encode_shape
encode_shape(o) ==
    IF ~LoopExits(Len(o.m_shape)) THEN Result("no_exit", NullPtr, FALSE)
    ELSE Result("ok",
                JArr([i \in 1..Len(o.m_shape) |->
                         JNum("uint64_t", Nat64(o.m_shape[i]))]),
                FALSE)

\* the loop of Array<T>::decode_shape: the first element getElement<uint64_t>
\* throws for ends it (the counter reaches the first ByteRange elements
\* only), else it ends as the loop of encode_shape does
DecodeShapeLoop(encoded) ==
    LET element == [i \in 1..Len(encoded.a) |-> Convert(encoded.a[i], "uint64_t")]
        failed == {i \in 1..Len(encoded.a) : i <= ByteRange /\ ~element[i].ok}
        first == CHOOSE i \in failed : \A j \in failed : i <= j
    IN  CASE failed # {} -> Result(element[first].v, NullPtr, FALSE)
          [] ~LoopExits(Len(encoded.a)) -> Result("no_exit", NullPtr, FALSE)
          [] OTHER -> Result("ok", [i \in 1..Len(encoded.a) |-> U64(element[i].v)],
                             FALSE)

\* Array<T>::decode_shape; encoded is a null pointer when the wire object
\* has no array there
decode_shape(encoded) ==
    IF encoded.k # "arr" THEN Result("Poco::Exception", NullPtr, FALSE)
    ELSE DecodeShapeLoop(encoded)

(***************************************************************************)
(* The buffer as bytes, and base64                                         *)
(***************************************************************************)

RECURSIVE BufferImage(_, _)
\* the bytes of data[i ..]: what reinterpret_cast<const char*>(data.data())
\* points at
BufferImage(data, i) ==
    IF i > Len(data) THEN <<>> ELSE data[i] \o BufferImage(data, i + 1)

RECURSIVE Base64Encode(_)
\* Poco::Base64Encoder with BASE64_URL_ENCODING: three bytes give four
\* characters, a last group of one or two bytes gives two or three, and no
\* padding is written.  Characters are written as their 6-bit codes.
Base64Encode(bytes) ==
    CASE Len(bytes) = 0 -> <<>>
      [] Len(bytes) = 1 -> <<bytes[1] \div 4, (bytes[1] % 4) * 16>>
      [] Len(bytes) = 2 ->
            <<bytes[1] \div 4, (bytes[1] % 4) * 16 + bytes[2] \div 16,
              (bytes[2] % 16) * 4>>
      [] OTHER ->
            <<bytes[1] \div 4, (bytes[1] % 4) * 16 + bytes[2] \div 16,
              (bytes[2] % 16) * 4 + bytes[3] \div 64, bytes[3] % 64>>
                \o Base64Encode(SubSeq(bytes, 4, Len(bytes)))

RECURSIVE Base64Decode(_)
\* Poco::Base64Decoder with BASE64_URL_ENCODING: four characters give three
\* bytes, a last group of two or three gives one or two
Base64Decode(chars) ==
    CASE Len(chars) < 2 -> <<>>
      [] Len(chars) = 2 -> <<chars[1] * 4 + chars[2] \div 16>>
      [] Len(chars) = 3 ->
            <<chars[1] * 4 + chars[2] \div 16,
              (chars[2] % 16) * 16 + chars[3] \div 4>>
      [] OTHER ->
            <<chars[1] * 4 + chars[2] \div 16,
              (chars[2] % 16) * 16 + chars[3] \div 4,
              (chars[3] % 4) * 64 + chars[4]>>
                \o Base64Decode(SubSeq(chars, 5, Len(chars)))

\* a string Var holding base64 text, written as the 6-bit codes of its
\* characters
JB64(chars) == [k |-> "str", b64 |-> chars]

\* Array<T>::encode_data
encode_data(o) == JB64(Base64Encode(BufferImage(o.data, 1)))

\* data_pointer() of an array that hands out a view of no bytes whatever it
\* holds
DataPointerOfAny(o) == Result("ok", <<>>, FALSE)

\* Array<T>::data_pointer() const: the bytes the pointer returned is a view
\* of
data_pointer_const(o) ==
    IF o.m_element_type_name # "string"
    THEN Result("ok", BufferImage(o.data, 1), FALSE)
    ELSE Result("SALException", NullPtr, FALSE)

\* Array<T>::data_pointer()
data_pointer(o) ==
    IF o.m_element_type_name # "string"
    THEN Result("ok", BufferImage(o.data, 1), FALSE)
    ELSE Result("SALException", NullPtr, FALSE)

\* the 6-bit codes of the base64 characters of a string Var; text that was
\* not written by the encoder is read as the empty string
Base64Chars(var) == IF "b64" \in DOMAIN var THEN var.b64 ELSE <<>>

\* decoder.read(buffer, n): the first n bytes the decoder yields, the bytes
\* not reached keeping the zeros the buffer was allocated with
ReadBytes(bytes, n) == [i \in 1..n |-> IF i <= Len(bytes) THEN bytes[i] ELSE 0]

\* Array<T>::decode_data: the buffer after the read
decode_data(o, b64) ==
    LET bytes == ReadBytes(Base64Decode(Base64Chars(b64)), Len(o.data) * SizeOf(o.T))
    IN  [i \in 1..Len(o.data) |->
            SubSeq(bytes, (i - 1) * SizeOf(o.T) + 1, i * SizeOf(o.T))]

(***************************************************************************)
(* Array<T>: encode, encode_summary, decode                                *)
(***************************************************************************)

\* offset + i * stride in uint64_t
Offset(offset, i, stride) == Add64(offset, Mul64(U64(i), stride))

\* data[index] of the C++ is data[Slot(index)] here: sequences start at 1
Slot(index) == Nat64(index) + 1

RECURSIVE DividesOut(_, _, _)
\* n is the product of the extents _shape[i ..], none of them 0, as a
\* number: dividing n by them in turn leaves 1
DividesOut(n, _shape, i) ==
    IF i > Len(_shape) THEN n = 1
    ELSE /\ Small64(_shape[i])
         /\ n % Nat64(_shape[i]) = 0
         /\ DividesOut(n \div Nat64(_shape[i]), _shape, i + 1)

\* the buffer holds an element for every multi-index inside the extents:
\* its length is their product and not the product modulo 2^64
ExactSize(o) ==
    IF \E i \in 1..Len(o.m_shape) : o.m_shape[i] = U64Zero
    THEN Len(o.data) = 0
    ELSE DividesOut(Len(o.data), o.m_shape, 1)

RECURSIVE EncodeList(_, _, _)
\* Array<T>::encode_data_to_json_array(dimension, offset), for an instance
\* with 0 < m_dimension = dimension(): the nested list of the strings
EncodeList(o, dimension, offset) ==
    IF dimension = o.m_dimension - 1
    THEN JArr([i \in 1..Nat64(o.m_shape[dimension + 1]) |->
                  JStr(o.data[Slot(Offset(offset, i - 1, U64One))])])
    ELSE JArr([i \in 1..Nat64(o.m_shape[dimension + 1]) |->
                  EncodeList(o, (dimension + 1) % ByteRange,
                             Offset(offset, i - 1, o.m_strides[dimension + 1]))])

\* Array<T>::encode_data_to_json_array().  With m_dimension = 0 the test
\* dimension == m_dimension - 1 compares 0 with -1, and shape()[0] is read
\* from a vector that has no element.  With a buffer shorter than the
\* extents tell, data is read behind its end, for 2^64 elements or more.
encode_data_to_json_array(o, ub) ==
    CASE o.m_dimension = 0 ->
            IF ub = "crash" THEN Result("crash", NullPtr, TRUE)
            ELSE Result("ok", JArr(<<>>), TRUE)
      [] ~ExactSize(o) ->
            IF ub = "crash" THEN Result("crash", NullPtr, TRUE)
            ELSE Result("no_exit", NullPtr, TRUE)
      [] OTHER -> Result("ok", EncodeList(o, 0, U64Zero), FALSE)

\* Array<T>::encode: the wire object, or how the call ends otherwise
ArrayEncode(o, ub) ==
    LET _shape == encode_shape(o)
        data == IF o.m_element_type_name = "string"
                THEN encode_data_to_json_array(o, ub)
                ELSE Result("ok", encode_data(o), FALSE)
    IN  CASE _shape.status # "ok" -> _shape
          [] o.m_is_summary -> Result("SALException", NullPtr, FALSE)
          [] data.status # "ok" -> data
          [] OTHER ->
                Result("ok",
                       JObj(("type" :> JStr(o.m_type_name))
                            @@ ("value" :>
                                  JObj(("type" :> JStr(o.m_element_type_name))
                                       @@ ("shape" :> _shape.v)
                                       @@ ("encoding" :> JStr(encoding(o)))
                                       @@ ("data" :> data.v)))),
                       data.oob)

\* Array<T>::encode_summary
ArrayEncodeSummary(o) ==
    LET _shape == encode_shape(o)
    IN  IF _shape.status # "ok" THEN _shape
        ELSE Result("ok", JObj("shape" :> _shape.v), FALSE)

\* array->data[index] = e of decode_data_from_json_array, on the buffer
\* buffer.data: a write behind the end of the buffer stops the process or
\* leaves the buffer as it is
Store(buffer, index, e, ub) ==
    IF Small64(index) /\ Slot(index) \in DOMAIN buffer.data
    THEN Ok([buffer EXCEPT !.data[Slot(index)] = e])
    ELSE IF ub = "crash" THEN Throw("crash")
         ELSE Ok([buffer EXCEPT !.oob = TRUE])

RECURSIVE DecodeList(_, _, _, _, _, _, _)
\* Array<T>::decode_data_from_json_array(array, json, dimension, offset),
\* from iteration i of its loop on: the buffer after it, or the exception of
\* the first access that fails (json is a null pointer where the wire value
\* holds no array at that place)
DecodeList(o, buffer, json, dimension, offset, i, ub) ==
    IF ~(i < Nat64(o.m_shape[dimension + 1])) THEN Ok(buffer)
    ELSE IF json.k # "arr" THEN Throw("Poco::Exception")
    ELSE IF dimension = Len(o.m_shape) - 1
    THEN LET e == Convert(IF i < Len(json.a) THEN json.a[i + 1] ELSE JNull, o.T)
             stored == Store(buffer, Offset(offset, i, U64One), e.v, ub)
         IN  IF ~e.ok THEN e
             ELSE IF ~stored.ok THEN stored
             ELSE DecodeList(o, stored.v, json, dimension, offset, i + 1, ub)
    ELSE LET child == IF i < Len(json.a) /\ json.a[i + 1].k = "arr"
                      THEN json.a[i + 1] ELSE NullPtr
             r == DecodeList(o, buffer, child, (dimension + 1) % ByteRange,
                             Offset(offset, i, o.m_strides[dimension + 1]), 0, ub)
         IN  IF ~r.ok THEN r
             ELSE DecodeList(o, r.v, json, dimension, offset, i + 1, ub)

\* Array<T>::decode_data_from_json_array(arr, json).  With dimension() = 0
\* the test dimension == dimension() - 1 compares 0 with the largest size_t,
\* and shape()[0] is read from a vector that has no element.
decode_data_from_json_array(o, json, ub) ==
    IF Len(o.m_shape) = 0
    THEN IF ub = "crash" THEN Result("crash", NullPtr, TRUE)
         ELSE Result("ok", o.data, TRUE)
    ELSE LET r == DecodeList(o, [data |-> o.data, oob |-> FALSE], json, 0,
                             U64Zero, 0, ub)
         IN  IF r.ok THEN Result("ok", r.v.data, r.v.oob)
             ELSE Result(r.v, NullPtr, r.v = "crash")

\* the element type check of Array<T>::decode: the wire element type is not
\* one this class takes
ElementTypeMismatch(input_type, DT) ==
    input_type # "bool" /\ input_type # to_dtype_name(DT)

\* the encoding check of Array<T>::decode
EncodingUnsupported(_encoding) == ~(_encoding = "base64" \/ _encoding = "list")

\* the branch of Array<T>::decode for a wire object without "value": arr is
\* still the null pointer it was initialised with when arr->m_is_summary is
\* assigned, and Poco::SharedPtr throws NullPointerException on that
DecodeSummaryBranch(DT, json, ub) == Result("Poco::Exception", NullPtr, FALSE)

\* the branch of Array<T>::decode for a wire object with "value"
DecodeFullBranch(DT, json, ub) ==
    LET array_definition == GetObject(json, "value").v
        input_type == GetValue(array_definition, "type", "std::string")
        _encoding == GetValue(array_definition, "encoding", "std::string")
        _shape == decode_shape(GetArray(array_definition, "shape").v)
        arr == Array(DT, _shape.v, ub)
        data == IF arr.v.m_element_type_name = "string"
                THEN decode_data_from_json_array(
                         arr.v, GetArray(array_definition, "data").v, ub)
                ELSE IF GetValue(array_definition, "data", "std::string").ok
                     THEN Result("ok",
                                 decode_data(arr.v, Get(array_definition, "data")),
                                 FALSE)
                     ELSE Result("Poco::Exception", NullPtr, FALSE)
    IN  CASE ~input_type.ok -> Result(input_type.v, NullPtr, FALSE)
          [] ElementTypeMismatch(input_type.v, DT) ->
                Result("SALException", NullPtr, FALSE)
          [] ~_encoding.ok -> Result(_encoding.v, NullPtr, FALSE)
          [] EncodingUnsupported(_encoding.v) -> Result("SALException", NullPtr, FALSE)
          [] _shape.status # "ok" -> _shape
          [] arr.status # "ok" -> arr
          [] data.status # "ok" -> Result(data.status, NullPtr, arr.oob \/ data.oob)
          [] OTHER -> Result("ok", [arr.v EXCEPT !.data = data.v],
                             arr.oob \/ data.oob)

\* Array<T>::decode.  Nothing is caught here: what is thrown leaves the
\* function as it is.
ArrayDecode(DT, json, ub) ==
    LET _type == GetValue(json, "type", "std::string")
    IN  CASE ~_type.ok -> Result(_type.v, NullPtr, FALSE)
          [] _type.v # "array" -> Result("SALException", NullPtr, FALSE)
          [] ~Has(json, "value") -> DecodeSummaryBranch(DT, json, ub)
          [] OTHER -> DecodeFullBranch(DT, json, ub)

\* the native type of the Array<T> whose decode decode_array calls for an
\* element type name; BoolArray::decode is Array<uint8_t>::decode
ArrayClassOf(el_type_name) ==
    CASE el_type_name = "int8" -> "int8_t"
      [] el_type_name = "int16" -> "int16_t"
      [] el_type_name = "int32" -> "int32_t"
      [] el_type_name = "int64" -> "int64_t"
      [] el_type_name = "uint8" -> "uint8_t"
      [] el_type_name = "uint16" -> "uint16_t"
      [] el_type_name = "uint32" -> "uint32_t"
      [] el_type_name = "uint64" -> "uint64_t"
      [] el_type_name = "float32" -> "float"
      [] el_type_name = "float64" -> "double"
      [] el_type_name = "bool" -> "uint8_t"
      [] el_type_name = "string" -> "std::string"
      [] OTHER -> "SALException"

\* decode_array.  The handler of its try block writes json into the message
\* (which throws when json is a null pointer) and throws SALException.
decode_array(json, ub) ==
    LET array_definition == GetObject(json, "value")
        el_type_name == GetValue(array_definition.v, "type", "std::string")
    IN  CASE json.k # "obj" -> Result("Poco::Exception", NullPtr, FALSE)
          [] ~el_type_name.ok -> Result("SALException", NullPtr, FALSE)
          [] ArrayClassOf(el_type_name.v) = "SALException" ->
                Result("SALException", NullPtr, FALSE)
          [] OTHER -> ArrayDecode(ArrayClassOf(el_type_name.v), json, ub)

(***************************************************************************)
(* Dictionary, and the decode() dispatcher                                 *)
(*                                                                         *)
(* Attribute::Ptr members are ids of heap objects.  A decoder returns the  *)
(* objects it has built as a sequence objs, to be put on the heap behind   *)
(* the base objects already there: objs[1] is the instance returned, and   *)
(* the id of objs[i] is base + i.                                          *)
(***************************************************************************)

\* the keys dictionaries are given, in the order std::map iterates them
KeyOrder == <<"a", "b">>

Keys == {KeyOrder[i] : i \in 1..Len(KeyOrder)}

\* std::map<std::string, Attribute::Ptr> with no entry
NoAttributes == [key \in {} |-> 0]

\* Dictionary::Dictionary
Dictionary ==
    [attributes |-> NoAttributes]
        @@ Attribute("Dictionary", "Dictionary", "ATTR_DICTIONARY", "dictionary")

\* Dictionary::has
has(o, key) == key \in DOMAIN o.attributes

\* a Dictionary::set that keeps the attribute a key already has
SetKeepsFirst(o, key, attribute) ==
    IF key \in DOMAIN o.attributes THEN o
    ELSE [o EXCEPT !.attributes =
            [k \in DOMAIN o.attributes \cup {key} |->
                IF k = key THEN attribute ELSE o.attributes[k]]]

\* Dictionary::set: attributes[key] = attribute
set(o, key, attribute) ==
    [o EXCEPT !.attributes =
        [k \in DOMAIN o.attributes \cup {key} |->
            IF k = key THEN attribute ELSE o.attributes[k]]]

\* Dictionary::remove: attributes.erase(key)
remove(o, key) ==
    [o EXCEPT !.attributes = [k \in DOMAIN o.attributes \ {key} |-> o.attributes[k]]]

\* Dictionary::get, Dictionary::operator[]: attributes.at(key), which throws
\* std::out_of_range for a key that is not there
get(o, key) ==
    IF has(o, key) THEN Ok(o.attributes[key]) ELSE Throw("std::out_of_range")

\* what a decoder hands back: how it ended, and the objects it has built
Decoded(status, objs, oob) == [status |-> status, objs |-> objs, oob |-> oob]

\* the outcome of a decoder that builds one object
Single(r) == Decoded(r.status, IF r.status = "ok" THEN <<r.v>> ELSE <<>>, r.oob)

\* the outcome of Atomic<DT>::decode as a decoder's
SingleAtomic(r) == Decoded(IF r.ok THEN "ok" ELSE r.v, IF r.ok THEN <<r.v>> ELSE <<>>, FALSE)

\* the native type of the Atomic<T> the dispatcher decodes a wire type with
AtomicClassOf(id) ==
    CASE id = "int8" -> "int8_t"
      [] id = "int16" -> "int16_t"
      [] id = "int32" -> "int32_t"
      [] id = "int64" -> "int64_t"
      [] id = "uint8" -> "uint8_t"
      [] id = "uint16" -> "uint16_t"
      [] id = "uint32" -> "uint32_t"
      [] id = "uint64" -> "uint64_t"
      [] id = "float32" -> "float"
      [] id = "float64" -> "double"
      [] id = "bool" -> "bool"
      [] id = "string" -> "std::string"
      [] OTHER -> "SALException"

\* what leaves Dictionary::decode when status leaves its try block: every
\* exception is caught and thrown again as SALException
Rethrown(status) ==
    IF status \in {"ok", "crash", "no_exit"} THEN status ELSE "SALException"

RECURSIVE decode(_, _, _)
RECURSIVE decode_items(_, _, _, _, _)
RECURSIVE DictionaryDecode(_, _, _)
RECURSIVE SetDecoded(_, _, _, _, _, _)

\* the outcome of a loop that went on behind the object child: the objects
\* of rest, which hold those of child
Behind(child, rest) == Decoded(rest.status, rest.objs, child.oob \/ rest.oob)

\* the dispatcher: Attribute::Ptr decode(Poco::JSON::Object::Ptr json)
decode(json, base, ub) ==
    LET id == GetValue(json, "type", "std::string")
    IN  CASE ~id.ok -> Decoded("SALException", <<>>, FALSE)
          [] id.v = "dictionary" -> DictionaryDecode(json, base, ub)
          [] id.v = "array" -> Single(decode_array(json, ub))
          [] AtomicClassOf(id.v) # "SALException" ->
                SingleAtomic(AtomicDecode(AtomicClassOf(id.v), json))
          [] OTHER -> Decoded("SALException", <<>>, FALSE)

\* Dictionary::decode_items, from key number i of contents on; objs[1] is
\* the container, whose id is base + 1
decode_items(contents, i, objs, base, ub) ==
    IF i > Len(KeyOrder) THEN Decoded("ok", objs, FALSE)
    ELSE LET key == KeyOrder[i]
         IN  CASE ~Has(contents, key) \/ IsNull(contents, key) ->
                    decode_items(contents, i + 1, objs, base, ub)
               [] ~IsObject(contents, key) -> Decoded("SALException", <<>>, FALSE)
               [] OTHER ->
                    SetDecoded(contents, i, objs, base, ub,
                               decode(contents.o[key], base + Len(objs), ub))

\* the statement container->set(key, decode(contents->getObject(key))) of
\* decode_items for key number i, child being what decode() handed back,
\* and the rest of the loop behind it
SetDecoded(contents, i, objs, base, ub, child) ==
    IF child.status # "ok" THEN child
    ELSE Behind(child,
                decode_items(contents, i + 1,
                             <<set(objs[1], KeyOrder[i], base + Len(objs) + 1)>>
                                 \o Tail(objs) \o child.objs,
                             base, ub))

\* what leaves the try block of Dictionary::decode as items leaves
\* decode_items: every exception is caught and thrown again as SALException
Caught(items) ==
    Decoded(Rethrown(items.status),
            IF items.status = "ok" THEN items.objs ELSE <<>>,
            items.oob)

\* Dictionary::decode
DictionaryDecode(json, base, ub) ==
    LET _type == GetValue(json, "type", "std::string")
        contents == GetObject(json, "items").v
    IN  CASE json.k # "obj" -> Decoded("Poco::Exception", <<>>, FALSE)
          [] ~_type.ok \/ _type.v # "dictionary" -> Decoded("SALException", <<>>, FALSE)
          [] ~Has(json, "items") ->
                Decoded("ok", <<[Dictionary EXCEPT !.m_is_summary = TRUE]>>, FALSE)
          [] contents.k # "obj" -> Decoded("SALException", <<>>, FALSE)
          [] OTHER -> Caught(decode_items(contents, 1, <<Dictionary>>, base, ub))

\* Dictionary::encode_summary
DictionaryEncodeSummary(o) == JObj(EmptyMembers)

\* Attribute::encode_summary, as Null and Atomic<T> inherit it
AttributeEncodeSummary(o, encoded) ==
    JObj(("type" :> JStr(o.m_type_name))
         @@ (IF is_atomic(o) THEN "value" :> Get(encoded, "value") ELSE EmptyMembers))

RECURSIVE encode(_, _, _, _)
\* obj->encode() through the virtual table, for the object id of heap h.
\* path holds the dictionaries whose encode is on the call stack: a
\* dictionary met again is encoded again without end, until the stack is
\* used up.
encode(h, id, path, ub) ==
    CASE h[id].kind = "Null" -> Result("ok", NullEncode(h[id]), FALSE)
      [] h[id].kind = "Atomic" -> Result("ok", AtomicEncode(h[id]), FALSE)
      [] h[id].kind = "Array" -> ArrayEncode(h[id], ub)
      [] h[id].kind = "Dictionary" ->
            IF id \in path THEN Result("crash", NullPtr, FALSE)
            ELSE LET children == [key \in DOMAIN h[id].attributes |->
                                    encode(h, h[id].attributes[key], path \cup {id}, ub)]
                     failed == {i \in 1..Len(KeyOrder) :
                                  /\ KeyOrder[i] \in DOMAIN children
                                  /\ children[KeyOrder[i]].status # "ok"}
                     first == CHOOSE i \in failed : \A j \in failed : i <= j
                 IN  IF failed # {} THEN children[KeyOrder[first]]
                     ELSE Result("ok",
                                 JObj(("type" :> JStr(h[id].m_type_name))
                                      @@ ("items" :>
                                            JObj([key \in DOMAIN children |->
                                                     children[key].v]))),
                                 \E key \in DOMAIN children : children[key].oob)

\* obj->encode_summary() through the virtual table, for the object id of
\* heap h: Array<T> and Dictionary override Attribute::encode_summary
encode_summary(h, id, ub) ==
    CASE h[id].kind = "Array" -> ArrayEncodeSummary(h[id])
      [] h[id].kind = "Dictionary" ->
            Result("ok", DictionaryEncodeSummary(h[id]), FALSE)
      [] h[id].kind = "Atomic" ->
            Result("ok", AttributeEncodeSummary(h[id], AtomicEncode(h[id])), FALSE)
      [] OTHER ->
            Result("ok", AttributeEncodeSummary(h[id], NullEncode(h[id])), FALSE)

(***************************************************************************)
(* The application: library calls on a heap of attribute objects           *)
(***************************************************************************)

\* the most attribute objects the application holds at once
MaxHeap == 2

\* the most attribute objects the application builds with a constructor
\* before it turns to encoding and decoding
MaxNew == 1

\* the most updates (element writes, Dictionary set and remove) the
\* application makes
MaxWrites == 1

\* the values Atomic<DT> instances are built with
SampleValues(DT) ==
    CASE DT = "int8_t" -> {-128, 127}
      [] DT = "int16_t" -> {-32768, 32767}
      [] DT = "int32_t" -> {-70000, 70000}
      [] DT = "int64_t" -> {-2147483647, 2147483647}
      [] DT = "uint8_t" -> {5, 255}
      [] DT = "uint16_t" -> {300, 65535}
      [] DT = "uint32_t" -> {12, 70000}
      [] DT = "uint64_t" -> {1, 2147483647}
      [] DT = "float" -> {1, 3}
      [] DT = "double" -> {2, 3}
      [] DT = "bool" -> {TRUE, FALSE}
      [] DT = "std::string" -> {"abc", "12"}

\* the values array elements are set to
SampleElements(DT) == {Element(DT, v) : v \in SampleValues(DT)}

\* the outcome of the last library call: the call (op, its template
\* argument T, the object arg it was made on), how it ended (status), the
\* object it returned (id), whether it touched a position outside a
\* sequence (oob), and val: the shape a constructor was given, the index an
\* element access has addressed.  A decoder is given the wire object `wire`.
Outcome(op, DT, arg, status, id, oob, val) ==
    [op |-> op, T |-> DT, arg |-> arg, status |-> status,
     id |-> id, oob |-> oob, val |-> val]

\* the calling process is still running: the last call returned or threw
Running == ret.status \notin {"crash", "no_exit", "terminate"}

Init ==
    /\ heap = <<>>
    /\ wire = NullPtr
    /\ ret = Outcome("none", "", 0, "ok", 0, FALSE, <<>>)
    /\ writes = 0

\* the caller keeps the objects a constructor or decoder returned
Return(op, DT, r, val) ==
    /\ heap' = heap \o r.objs
    /\ ret' = Outcome(op, DT, 0, r.status,
                      IF r.status = "ok" THEN Len(heap) + 1 ELSE 0, r.oob, val)
    /\ UNCHANGED <<wire, writes>>

\* new Atomic<DT>(v), by an application that builds at most limit objects
NewAtomicWithin(limit, DT, v) ==
    /\ Running
    /\ Len(heap) < limit
    /\ Return("Atomic", DT, Decoded("ok", <<Atomic(DT, v)>>, FALSE), <<>>)

\* new Atomic<DT>(v)
NewAtomic(DT, v) == NewAtomicWithin(MaxNew, DT, v)

\* new Null()
NewNull ==
    /\ Running
    /\ Len(heap) < MaxNew
    /\ Return("Null", "Null", Decoded("ok", <<Null>>, FALSE), <<>>)

\* ShapeType of the extents
ShapeOf(extents) == [i \in 1..Len(extents) |-> U64(extents[i])]

\* new Array<DT>(extents)
NewArray(DT, extents, ub) ==
    /\ Running
    /\ Len(heap) < MaxNew
    /\ Return("Array", DT, Single(Array(DT, ShapeOf(extents), ub)), extents)

\* new BoolArray(extents)
NewBoolArray(extents, ub) ==
    /\ Running
    /\ Len(heap) < MaxNew
    /\ Return("BoolArray", "uint8_t", Single(BoolArray(ShapeOf(extents), ub)), extents)

\* new Dictionary(), by an application that builds at most limit objects
NewDictionaryWithin(limit) ==
    /\ Running
    /\ Len(heap) < limit
    /\ Return("Dictionary", "Dictionary", Decoded("ok", <<Dictionary>>, FALSE), <<>>)

\* new Dictionary()
NewDictionary == NewDictionaryWithin(MaxNew)

\* (*heap[id])[index] = v, with index inside the buffer
ArrayWrite(id, index, v) ==
    /\ Running
    /\ heap[id].kind = "Array"
    /\ writes < MaxWrites
    /\ index < size(heap[id])
    /\ heap' = [heap EXCEPT ![id].data[index + 1] = v]
    /\ writes' = writes + 1
    /\ ret' = Outcome("operator[]", heap[id].T, id, "ok", 0, FALSE, <<index>>)
    /\ UNCHANGED wire

\* (*heap[id])(row, column) on a two-dimensional array, inside its extents
ArrayCall(id, row, column) ==
    /\ Running
    /\ heap[id].kind = "Array"
    /\ Len(heap[id].m_shape) = 2 /\ Len(heap[id].m_strides) = 2
    /\ row < Nat64(heap[id].m_shape[1]) /\ column < Nat64(heap[id].m_shape[2])
    /\ ret' = Outcome("operator()", heap[id].T, id, "ok", 0, FALSE,
                      <<row, column,
                        Nat64(FlatIndex2(heap[id], U64(row), U64(column)))>>)
    /\ UNCHANGED <<heap, wire, writes>>

\* heap[d]->set(key, heap[child]), by an application that makes at most
\* limit updates
SetWithin(limit, d, key, child) ==
    /\ Running
    /\ heap[d].kind = "Dictionary"
    /\ writes < limit
    /\ heap' = [heap EXCEPT ![d] = set(heap[d], key, child)]
    /\ writes' = writes + 1
    /\ ret' = Outcome("set", key, d, "ok", child, FALSE, <<>>)
    /\ UNCHANGED wire

\* heap[d]->set(key, heap[child])
CallSet(d, key, child) == SetWithin(MaxWrites, d, key, child)

\* heap[d]->remove(key), by an application that makes at most limit updates
RemoveWithin(limit, d, key) ==
    /\ Running
    /\ heap[d].kind = "Dictionary"
    /\ writes < limit
    /\ heap' = [heap EXCEPT ![d] = remove(heap[d], key)]
    /\ writes' = writes + 1
    /\ ret' = Outcome("remove", key, d, "ok", 0, FALSE, <<>>)
    /\ UNCHANGED wire

\* heap[d]->remove(key)
CallRemove(d, key) == RemoveWithin(MaxWrites, d, key)

\* heap[d]->get(key); the caller is handed the child, or the exception
CallGet(d, key) ==
    /\ Running
    /\ heap[d].kind = "Dictionary"
    /\ ret' = Outcome("get", key, d,
                      IF get(heap[d], key).ok THEN "ok" ELSE get(heap[d], key).v,
                      IF get(heap[d], key).ok THEN get(heap[d], key).v ELSE 0,
                      FALSE, <<>>)
    /\ UNCHANGED <<heap, wire, writes>>

\* heap[d]->has(key); val holds the answer
CallHas(d, key) ==
    /\ Running
    /\ heap[d].kind = "Dictionary"
    /\ ret' = Outcome("has", key, d, "ok", 0, FALSE, <<has(heap[d], key)>>)
    /\ UNCHANGED <<heap, wire, writes>>

\* heap[id]->encode(); the wire object goes to the transport
CallEncode(id, ub) ==
    /\ Running
    /\ LET r == encode(heap, id, {}, ub)
       IN  /\ wire' = IF r.status = "ok" THEN r.v ELSE wire
           /\ ret' = Outcome("encode", heap[id].T, id, r.status, 0,
                             r.oob, <<>>)
    /\ UNCHANGED <<heap, writes>>

\* heap[id]->encode_summary(); the wire object goes to the transport
CallEncodeSummary(id, ub) ==
    /\ Running
    /\ LET r == encode_summary(heap, id, ub)
       IN  /\ wire' = IF r.status = "ok" THEN r.v ELSE wire
           /\ ret' = Outcome("encode_summary", heap[id].T, id, r.status, 0,
                             r.oob, <<>>)
    /\ UNCHANGED <<heap, writes>>

\* the transport hands over the wire object w, once, to an application that
\* holds none
Receive(w) ==
    /\ Running
    /\ wire = NullPtr
    /\ wire' = w
    /\ ret' = Outcome("receive", "", 0, "ok", 0, FALSE, <<>>)
    /\ UNCHANGED <<heap, writes>>

\* Atomic<DT>::decode(wire)
CallAtomicDecode(DT) ==
    /\ Running
    /\ Len(heap) < MaxHeap
    /\ Return("Atomic::decode", DT, SingleAtomic(AtomicDecode(DT, wire)), <<>>)

\* Array<DT>::decode(wire)
CallArrayDecode(DT, ub) ==
    /\ Running
    /\ Len(heap) < MaxHeap
    /\ Return("Array::decode", DT, Single(ArrayDecode(DT, wire, ub)), <<>>)

\* decode_array(wire)
CallDecodeArray(ub) ==
    /\ Running
    /\ Len(heap) < MaxHeap
    /\ Return("decode_array", "", Single(decode_array(wire, ub)), <<>>)

\* Dictionary::decode(wire)
CallDictionaryDecode(ub) ==
    /\ Running
    /\ Len(heap) < MaxHeap
    /\ Return("Dictionary::decode", "Dictionary", DictionaryDecode(wire, Len(heap), ub), <<>>)

\* decode(wire), by an application that holds fewer than limit objects
DecodeWithin(limit, ub) ==
    /\ Running
    /\ Len(heap) < limit
    /\ Return("decode", "", decode(wire, Len(heap), ub), <<>>)

\* decode(wire)
CallDecode(ub) == DecodeWithin(MaxHeap, ub)

\* the object with member key when the Var is present
Member(key, var) == IF var = NullPtr THEN EmptyMembers ELSE key :> var

(***************************************************************************)
(* Atomic attributes                                                       *)
(***************************************************************************)

\* the `type` members of the wire objects the transport supplies to the
\* atomic decoders; NullPtr stands for a wire object without the member
AtomicWireTypes == {JStr("int32"), JStr("float32"), JNum("int64_t", 5), NullPtr}

\* their `value` members
AtomicWireValues == {JNum("int64_t", 300), JStr("12"), JNull, NullPtr}

\* the wire objects the transport supplies to the atomic decoders
AtomicWires ==
    {JObj(Member("type", t) @@ Member("value", v)) :
        t \in AtomicWireTypes, v \in AtomicWireValues}

NextAtomic ==
    \/ \E DT \in NativeTypes : \E v \in SampleValues(DT) : NewAtomic(DT, v)
    \/ \E id \in 1..Len(heap) : \E ub \in UBOutcomes : CallEncode(id, ub)
    \/ \E w \in AtomicWires : Receive(w)
    \/ \E DT \in NativeTypes : CallAtomicDecode(DT)

\* the application builds atomic attributes, encodes them and decodes wire
\* objects as atomics of every type
SpecAtomic == Init /\ [][NextAtomic]_vars

\* C1: whenever Atomic<T>::decode is given the wire object that encode()
\* produces for an Atomic<T> instance x, it succeeds, and the instance it
\* returns holds the value of x and carries the tag to_dtype<T>() and the
\* wire type name to_dtype_name<T>().
AtomicRoundTrip ==
    ret.op = "Atomic::decode" =>
        \A x \in 1..Len(heap) :
            (/\ heap[x].kind = "Atomic"
             /\ heap[x].T = ret.T
             /\ wire = AtomicEncode(heap[x]))
            => /\ ret.status = "ok"
               /\ heap[ret.id].kind = "Atomic"
               /\ heap[ret.id].T = ret.T
               /\ heap[ret.id].m_value = heap[x].m_value
               /\ heap[ret.id].m_type = to_dtype(ret.T)
               /\ heap[ret.id].m_type_name = to_dtype_name(ret.T)

\* an encoded string atomic has been decoded into a second instance
AtomicRoundTripDone ==
    /\ ret.op = "Atomic::decode"
    /\ ret.status = "ok"
    /\ ret.id = 2
    /\ heap[1].T = "std::string"
    /\ ret.T = "std::string"
    /\ wire = AtomicEncode(heap[1])
    /\ heap[2].m_value = "abc"

\* C4: Atomic<T>::decode of a wire object whose `type` member is not the
\* string to_dtype_name<T>() ends in the decode error and returns no
\* instance, whatever the `value` member is.
AtomicTypeMismatchFails ==
    (/\ ret.op = "Atomic::decode"
     /\ wire.k = "obj"
     /\ Has(wire, "type")
     /\ Get(wire, "type") # JStr(to_dtype_name(ret.T)))
    => (ret.status = "SALException" /\ ret.id = 0)

\* Atomic<int32_t>::decode has refused {type: "float32", value: 300}
AtomicTypeMismatchSeen ==
    /\ ret.op = "Atomic::decode"
    /\ ret.T = "int32_t"
    /\ wire = JObj(("type" :> JStr("float32")) @@ ("value" :> JNum("int64_t", 300)))
    /\ ret.status = "SALException"

(***************************************************************************)
(* Arrays                                                                  *)
(***************************************************************************)

\* the largest extent, and the most dimensions, of the shapes that are
\* enumerated in full
MaxExtent == 2

MaxRank == 2

SmallShapes == UNION {[1..n -> 0..MaxExtent] : n \in 0..MaxRank}

\* n dimensions of extent 1
Ones(n) == [i \in 1..n |-> 1]

\* shapes with as many dimensions as a uint8_t counts, and one more
WideShapes == {Ones(ByteRange), Ones(ByteRange + 1)}

\* a shape whose extents multiply to 2^64
OverflowShape == <<65536, 65536, 65536, 65536>>

\* the shapes arrays are constructed with
Shapes == SmallShapes \cup WideShapes \cup {OverflowShape}

\* the T of the Array<T> the application instantiates: an element of one
\* byte, of four and of eight bytes, and the string element, whose arrays
\* take the list encoding
ArrayTypes == {"uint8_t", "int32_t", "double", "std::string"}

\* the JSON array of the extents
ShapeList(extents) == JArr([i \in 1..Len(extents) |-> JNum("uint64_t", extents[i])])

\* a wire object of type "array" without "value": an array summary
SummaryWire(members) == JObj(("type" :> JStr("array")) @@ members)

\* a full wire object of uint8 elements whose element type is named el
FullWire(el, extents, chars) ==
    JObj(("type" :> JStr("array"))
         @@ ("value" :> JObj(("type" :> JStr(el))
                             @@ ("shape" :> ShapeList(extents))
                             @@ ("encoding" :> JStr("base64"))
                             @@ ("data" :> JB64(chars)))))

\* the wire objects the transport supplies to the array decoders, next to
\* those the application has encoded itself
ArrayWires ==
    {SummaryWire("shape" :> ShapeList(<<2>>)),
     SummaryWire("shape" :> ShapeList(<<>>)),
     SummaryWire(EmptyMembers),
     FullWire("bool", <<2>>, Base64Encode(<<1, 0>>)),
     FullWire("uint8", Ones(ByteRange), Base64Encode(<<5>>))}

\* the arrays the application holds
ArraysHeld == {id \in 1..Len(heap) : heap[id].kind = "Array"}

NextArray ==
    \/ \E DT \in ArrayTypes : \E extents \in Shapes : \E ub \in UBOutcomes :
            NewArray(DT, extents, ub)
    \/ \E extents \in Shapes : \E ub \in UBOutcomes : NewBoolArray(extents, ub)
    \/ \E id \in ArraysHeld : \E index \in 0..(size(heap[id]) - 1) :
            \E v \in SampleElements(heap[id].T) : ArrayWrite(id, index, v)
    \/ \E id \in ArraysHeld : \E row, column \in 0..(MaxExtent - 1) :
            ArrayCall(id, row, column)
    \/ \E id \in 1..Len(heap) : \E ub \in UBOutcomes : CallEncode(id, ub)
    \/ \E w \in ArrayWires : Receive(w)
    \/ \E DT \in ArrayTypes : \E ub \in UBOutcomes : CallArrayDecode(DT, ub)
    \/ \E ub \in UBOutcomes : CallDecodeArray(ub)
    \/ \E ub \in UBOutcomes : CallDecode(ub)

\* the application builds arrays, writes elements, encodes them and decodes
\* wire objects as arrays
SpecArray == Init /\ [][NextArray]_vars

\* the library calls that decode an array from `wire`
ArrayDecoders == {"Array::decode", "decode_array", "decode"}

\* the arrays held that are full and have a dimension or more
FullArrays ==
    {x \in ArraysHeld : ~heap[x].m_is_summary /\ Len(heap[x].m_shape) >= 1}

\* `wire` is what encode() returns for the array x, and the decoder of the
\* last call is one that takes its elements
DecodedFrom(x) ==
    /\ ret.op \in ArrayDecoders
    /\ ret.op = "Array::decode" => ret.T = heap[x].T
    /\ ArrayEncode(heap[x], "crash").status = "ok"
    /\ wire = ArrayEncode(heap[x], "crash").v

\* the array the last call returned has the shape and the elements of x
SameArray(x) ==
    /\ ret.status = "ok"
    /\ heap[ret.id].kind = "Array"
    /\ heap[ret.id].m_shape = heap[x].m_shape
    /\ heap[ret.id].T = heap[x].T
    /\ heap[ret.id].data = heap[x].data

\* C2: encode() of a full array of a non-string element type with a
\* dimension or more returns a wire object, and decoding that wire object
\* succeeds with an array of the same shape and the same element at every
\* flattened index.
Base64RoundTrip ==
    \A x \in FullArrays :
        heap[x].m_element_type_name # "string" =>
            /\ (ret.op = "encode" /\ ret.arg = x) => ret.status = "ok"
            /\ DecodedFrom(x) => SameArray(x)

RECURSIVE NestedAs(_, _, _)
\* json is a list of extents[d] lists nested as extents[d + 1 ..] tell, the
\* innermost being lists of strings
NestedAs(json, extents, d) ==
    /\ json.k = "arr"
    /\ Len(json.a) = extents[d]
    /\ \A i \in 1..Len(json.a) :
          IF d = Len(extents) THEN json.a[i].k = "str"
          ELSE NestedAs(json.a[i], extents, d + 1)

RECURSIVE Leaves(_, _, _)
\* the strings of a list nested from level d of n on, from left to right
Leaves(json, d, n) ==
    IF d = n THEN [i \in 1..Len(json.a) |-> json.a[i].s]
    ELSE IF Len(json.a) = 0 THEN <<>>
         ELSE Leaves(json.a[1], d + 1, n)
                \o Leaves(JArr(Tail(json.a)), d, n)

\* the wire object has encoding "list" and the elements of x as a list
\* nested as deep as x has dimensions, in row-major order
ListOf(x) ==
    LET definition == Get(wire, "value")
        extents == [d \in 1..Len(heap[x].m_shape) |-> Nat64(heap[x].m_shape[d])]
    IN  /\ Get(definition, "encoding") = JStr("list")
        /\ NestedAs(Get(definition, "data"), extents, 1)
        /\ Leaves(Get(definition, "data"), 1, Len(extents)) = heap[x].data

\* C3: encode() of a string array with n >= 1 dimensions returns a wire
\* object with encoding "list" whose data is nested n levels deep with the
\* elements as leaves in row-major order, and decoding that wire object
\* gives a string array of the same shape and elements.
ListRoundTrip ==
    \A x \in FullArrays :
        heap[x].m_element_type_name = "string" =>
            /\ (ret.op = "encode" /\ ret.arg = x) => (ret.status = "ok" /\ ListOf(x))
            /\ DecodedFrom(x) => SameArray(x)

\* C7: an array built with n >= 1 extents has n strides, the last of them 1
\* and each other one the product of the next stride and the next extent;
\* operator()(row, column) of a two-dimensional array addresses the
\* flattened index row * strides()[0] + column.
StrideLaw ==
    /\ \A x \in ArraysHeld :
          LET n == Len(heap[x].m_shape)
              m_strides == heap[x].m_strides
          IN  n >= 1 =>
                /\ Len(m_strides) = n
                /\ m_strides[n] = U64One
                /\ \A i \in 1..(n - 1) :
                      m_strides[i] = Mul64(m_strides[i + 1], heap[x].m_shape[i + 1])
    /\ ret.op = "operator()" =>
          ret.val[3] = ret.val[1] * Nat64(heap[ret.arg].m_strides[1]) + ret.val[2]

\* the wire object holds an array definition whose shape is the empty list
EmptyShapeWire ==
    /\ wire.k = "obj"
    /\ IsObject(wire, "value")
    /\ Get(Get(wire, "value"), "shape") = JArr(<<>>)

\* C8: the constructor given the shape [] returns an array of dimension 0
\* with no strides and a buffer of one element; it, encode() of such an array
\* and the decoders of such an array touch no position outside the shape,
\* the strides and the buffer.
EmptyShapeSafe ==
    /\ (ret.op \in {"Array", "BoolArray"} /\ ret.val = <<>>) =>
          /\ ret.status = "ok"
          /\ ~ret.oob
          /\ heap[ret.id].m_dimension = 0
          /\ heap[ret.id].m_strides = <<>>
          /\ Len(heap[ret.id].data) = 1
    /\ (ret.op = "encode" /\ heap[ret.arg].kind = "Array"
            /\ heap[ret.arg].m_shape = <<>>) =>
          (ret.status = "ok" /\ ~ret.oob)
    /\ (ret.op \in ArrayDecoders /\ EmptyShapeWire) =>
          (ret.status # "crash" /\ ~ret.oob)

\* C9: the buffer of every array held, constructed or decoded, has as many
\* elements as the product of its extents (1 for the empty shape).
SizeIsProduct == \A x \in ArraysHeld : ExactSize(heap[x])

\* the wire object has type "array", no "value" and no "data", and a list
\* as its shape
SummaryReceived ==
    /\ wire.k = "obj"
    /\ Get(wire, "type") = JStr("array")
    /\ ~Has(wire, "value") /\ ~Has(wire, "data")
    /\ IsArray(wire, "shape")

\* C10: Array<T>::decode and decode(), given a wire object of type "array"
\* without payload, return an array whose shape is the wire shape, whose
\* size is 0 and which is a summary.
SummaryDecodes ==
    (ret.op \in {"Array::decode", "decode"} /\ SummaryReceived) =>
        /\ ret.status = "ok"
        /\ heap[ret.id].kind = "Array"
        /\ heap[ret.id].m_shape = decode_shape(Get(wire, "shape")).v
        /\ size(heap[ret.id]) = 0
        /\ heap[ret.id].m_is_summary

(***************************************************************************)
(* Element access: at, data_at, data_pointer                               *)
(***************************************************************************)

\* heap[id]->at(i0, ..., i9); val holds the ten indices
CallAt(id, dim_index, ub) ==
    /\ Running
    /\ heap[id].kind = "Array"
    /\ LET r == at(heap[id], dim_index, ub)
       IN  ret' = Outcome("at", heap[id].T, id, r.status, 0, r.oob, dim_index)
    /\ UNCHANGED <<heap, wire, writes>>

\* heap[id]->data_at(i0, ..., i9)
CallDataAt(id, dim_index, ub) ==
    /\ Running
    /\ heap[id].kind = "Array"
    /\ LET r == data_at(heap[id], dim_index, ub)
       IN  ret' = Outcome("data_at", heap[id].T, id, r.status, 0, r.oob, dim_index)
    /\ UNCHANGED <<heap, wire, writes>>

\* heap[id]->data_pointer() on a pointer to const (const_view) or not; val
\* holds the bytes the pointer returned is a view of
CallDataPointer(id, const_view) ==
    /\ Running
    /\ heap[id].kind = "Array"
    /\ LET r == IF const_view THEN data_pointer_const(heap[id])
                ELSE data_pointer(heap[id])
       IN  ret' = Outcome(IF const_view THEN "data_pointer const" ELSE "data_pointer",
                          heap[id].T, id, r.status, 0, r.oob,
                          IF r.status = "ok" THEN r.v ELSE <<>>)
    /\ UNCHANGED <<heap, wire, writes>>

\* a shape of one dimension more than at takes indices for
LongShape == Ones(MaxAtDimensions + 1)

\* the shapes arrays are built with for element access
AccessShapes == SmallShapes \cup {LongShape, Ones(ByteRange + 1), OverflowShape}

\* the index values passed: -1 is what an index left out defaults to
IndexValues == -1..MaxExtent

\* the index lists passed to at and data_at: every choice for the first
\* MaxRank indices, the others all left out or all 0
IndexLists ==
    {[i \in 1..MaxAtDimensions |->
        IF i <= MaxRank THEN first[i] ELSE rest] :
        first \in [1..MaxRank -> IndexValues], rest \in {-1, 0}}

NextAccess ==
    \/ \E DT \in ArrayTypes : \E extents \in AccessShapes : \E ub \in UBOutcomes :
            NewArray(DT, extents, ub)
    \/ \E id \in ArraysHeld : \E dim_index \in IndexLists :
            \E ub \in UBOutcomes : CallAt(id, dim_index, ub)
    \/ \E id \in ArraysHeld : \E dim_index \in IndexLists :
            \E ub \in UBOutcomes : CallDataAt(id, dim_index, ub)

\* the application builds an array and reads its elements with at and
\* data_at
SpecAccess == Init /\ [][NextAccess]_vars

NextPointer ==
    \/ \E DT \in ArrayTypes : \E extents \in Shapes : \E ub \in UBOutcomes :
            NewArray(DT, extents, ub)
    \/ \E extents \in Shapes : \E ub \in UBOutcomes : NewBoolArray(extents, ub)
    \/ \E id \in ArraysHeld : \E index \in 0..(size(heap[id]) - 1) :
            \E v \in SampleElements(heap[id].T) : ArrayWrite(id, index, v)
    \/ \E id \in ArraysHeld : \E const_view \in BOOLEAN :
            CallDataPointer(id, const_view)

\* the application builds an array, writes an element, and asks for its
\* buffer with data_pointer
SpecPointer == Init /\ [][NextPointer]_vars

\* the last call was at or data_at on the array x
Accessed(x) == ret.op \in {"at", "data_at"} /\ ret.arg = x

\* an index of the last call is left out, negative, or not below the extent
\* of its dimension of x
IndexOutside(x) ==
    \E d \in 1..Len(heap[x].m_shape) :
        \/ ret.val[d] < 0
        \/ ~Less64(U64(ret.val[d]), heap[x].m_shape[d])

\* C11: on an array of at most 10 dimensions, at() with an index that is
\* left out, negative or not below the extent of its dimension (so every
\* index for a dimension of extent 0) ends in the out-of-range error, and no
\* position outside the buffer is touched.
AtChecksBounds ==
    \A x \in ArraysHeld :
        (/\ Len(heap[x].m_shape) <= MaxAtDimensions
         /\ ret.op = "at" /\ ret.arg = x
         /\ IndexOutside(x))
        => (ret.status = "std::out_of_range" /\ ~ret.oob)

\* C12: on an array built with a shape of more than 10 dimensions, every
\* call of at() and of data_at() ends in the out-of-range error, whatever
\* the indices.
AtRefusesLongShapes ==
    \A x \in ArraysHeld :
        (Len(heap[x].m_shape) > MaxAtDimensions /\ Accessed(x))
        => ret.status = "std::out_of_range"

\* the last call was data_pointer(), on a pointer to const or not, on the
\* array x
PointerAsked(x) ==
    ret.op \in {"data_pointer", "data_pointer const"} /\ ret.arg = x

\* C13: data_pointer(), const or not, ends in SALException on every array
\* of strings, and on every array of another element type (BoolArray too)
\* it returns a view of byte_size() = size() * sizeof(T) bytes.
DataPointerByType ==
    \A x \in ArraysHeld :
        PointerAsked(x) =>
            IF heap[x].T = "std::string"
            THEN ret.status = "SALException"
            ELSE /\ ret.status = "ok"
                 /\ Len(ret.val) = byte_size(heap[x])
                 /\ byte_size(heap[x]) = size(heap[x]) * SizeOf(heap[x].T)

\* data_pointer() const has returned the 16 bytes of a Float64 array of two
\* elements one of which was written
DataPointerGiven ==
    /\ ret.op = "data_pointer const" /\ ret.status = "ok"
    /\ heap[ret.arg].T = "double"
    /\ size(heap[ret.arg]) = 2
    /\ writes = 1
    /\ Len(ret.val) = 16

(***************************************************************************)
(* Dictionaries and the dispatcher                                         *)
(***************************************************************************)

\* a wire object of an atomic: {type: name, value: var}
AtomicWire(name, var) == JObj(("type" :> JStr(name)) @@ ("value" :> var))

\* a wire object of a dictionary whose items are members
DictionaryWire(members) ==
    JObj(("type" :> JStr("dictionary")) @@ ("items" :> JObj(members)))

\* what the wire objects supplied hold under a key of `items`: null, a
\* number, an atomic, an atomic without its value, a dictionary, an array
\* whose shape has ByteRange entries, an array of shape []; NullPtr stands
\* for a key that is not there
ItemValues ==
    {JNull,
     JNum("int64_t", 5),
     AtomicWire("int32", JNum("int64_t", 5)),
     JObj("type" :> JStr("int32")),
     DictionaryWire("a" :> JNull),
     FullWire("uint8", Ones(ByteRange), Base64Encode(<<5>>)),
     FullWire("uint8", <<>>, Base64Encode(<<5>>)),
     NullPtr}

\* the wire objects the transport supplies to Dictionary::decode and decode
DictionaryWires ==
    {DictionaryWire(Member("a", a) @@ Member("b", b)) :
        a \in ItemValues, b \in ItemValues}
    \cup {JObj("type" :> JStr("dictionary")),
          JObj(("type" :> JStr("dictionary")) @@ ("items" :> JNum("int64_t", 5))),
          JObj(("type" :> JStr("dictionary")) @@ ("value" :> JObj(EmptyMembers))),
          AtomicWire("int32", JNum("int64_t", 5)),
          AtomicWire("null", JNull),
          JObj("value" :> JNull)}

Next ==
    \/ NewDictionary
    \/ \E d, child \in 1..Len(heap) : \E key \in Keys : CallSet(d, key, child)
    \/ \E d \in 1..Len(heap) : \E key \in Keys : CallRemove(d, key)
    \/ \E id \in 1..Len(heap) : \E ub \in UBOutcomes : CallEncode(id, ub)
    \/ \E w \in DictionaryWires : Receive(w)
    \/ \E ub \in UBOutcomes : CallDictionaryDecode(ub)
    \/ \E ub \in UBOutcomes : CallDecode(ub)

\* the application builds and updates dictionaries, encodes them, and
\* decodes wire objects with Dictionary::decode and decode
Spec == Init /\ [][Next]_vars

\* `wire` is a dictionary wire object with an object as its `items`, given
\* to Dictionary::decode by the last call
ItemsDecoded ==
    /\ ret.op \in {"Dictionary::decode", "decode"}
    /\ wire.k = "obj"
    /\ Get(wire, "type") = JStr("dictionary")
    /\ IsObject(wire, "items")

\* decode() returns an instance for the entry: the entry is decodable
Decodable(entry) == entry.k = "obj" /\ decode(entry, 0, "crash").status = "ok"

\* C5: Dictionary::decode of a wire object whose items hold JSON null and
\* decodable objects only returns a dictionary; in the dictionary it returns
\* has(k) is false for every key of a null and true for every key of a
\* decodable object, and its children are those of the keys that are not
\* null: no Null attribute stands for a key that was dropped.
NullItemsDropped ==
    ItemsDecoded =>
        LET items == Get(wire, "items")
            names == DOMAIN items.o
            held == heap[ret.id].attributes
        IN  /\ (\A k \in names : items.o[k] = JNull \/ Decodable(items.o[k]))
                    => ret.status = "ok"
            /\ ret.status = "ok" =>
                    /\ \A k \in names : items.o[k] = JNull => ~has(heap[ret.id], k)
                    /\ \A k \in names : Decodable(items.o[k]) => has(heap[ret.id], k)
                    /\ DOMAIN held = {k \in names : ~items.o[k] = JNull}
                    /\ \A k \in DOMAIN held : heap[held[k]].kind # "Null"

\* Dictionary::decode has returned a dictionary for {a: null, b: an int32}:
\* it has b and does not have a
NullItemSeen ==
    /\ ret.op = "Dictionary::decode"
    /\ ret.status = "ok"
    /\ wire = DictionaryWire(("a" :> JNull)
                             @@ ("b" :> AtomicWire("int32", JNum("int64_t", 5))))
    /\ has(heap[ret.id], "b") /\ ~has(heap[ret.id], "a")
    /\ heap[heap[ret.id].attributes["b"]].m_value = 5

\* decode() throws for the entry, or the entry is no object and not null
Undecodable(entry) ==
    \/ entry.k \notin {"obj", "null"}
    \/ entry.k = "obj"
          /\ decode(entry, 0, "crash").status \notin {"ok", "crash", "no_exit"}

\* C6: Dictionary::decode ends in the decode error and returns no dictionary
\* whenever an entry of items, at whatever key, is neither null nor an
\* object, or is an object decode() fails for.
BadItemFails ==
    (ItemsDecoded /\ \E k \in DOMAIN Get(wire, "items").o :
                        Undecodable(Get(wire, "items").o[k]))
    => (ret.status = "SALException" /\ ret.id = 0)

(***************************************************************************)
(* Summaries and the type field of wire objects                            *)
(***************************************************************************)

NextSummary ==
    \/ NewNull
    \/ \E DT \in NativeTypes : \E v \in SampleValues(DT) : NewAtomic(DT, v)
    \/ \E DT \in ArrayTypes : \E extents \in Shapes : \E ub \in UBOutcomes :
            NewArray(DT, extents, ub)
    \/ \E extents \in Shapes : \E ub \in UBOutcomes : NewBoolArray(extents, ub)
    \/ NewDictionary
    \/ \E w \in DictionaryWires : Receive(w)
    \/ \E ub \in UBOutcomes : CallDecode(ub)
    \/ \E id \in 1..Len(heap) : \E ub \in UBOutcomes : CallEncode(id, ub)
    \/ \E id \in 1..Len(heap) : \E ub \in UBOutcomes : CallEncodeSummary(id, ub)

\* the application builds or decodes an attribute and encodes it, in full
\* or as a summary
SpecSummary == Init /\ [][NextSummary]_vars

\* the JSON list json holds the extents of the shape _shape
HoldsShape(json, _shape) ==
    /\ json.k = "arr"
    /\ Len(json.a) = Len(_shape)
    /\ \A i \in 1..Len(_shape) :
          json.a[i].k = "num" /\ U64(json.a[i].n) = _shape[i]

\* C14: encode_summary() of an Atomic returns an object whose `value` is the
\* `value` of its encode(); of an Array, an object with `shape` equal to
\* shape() and with neither `value` nor `data`; of a Dictionary, an object
\* without `items` and without a member of any other name a child could be
\* put under.
SummaryContents ==
    ret.op = "encode_summary" =>
        LET o == heap[ret.arg]
        IN  CASE o.kind = "Atomic" ->
                    /\ ret.status = "ok"
                    /\ Has(wire, "value")
                    /\ Get(wire, "value") = Get(encode(heap, ret.arg, {}, "crash").v, "value")
              [] o.kind = "Array" ->
                    /\ ret.status = "ok"
                    /\ Has(wire, "shape")
                    /\ HoldsShape(Get(wire, "shape"), o.m_shape)
                    /\ ~Has(wire, "value") /\ ~Has(wire, "data")
              [] o.kind = "Dictionary" ->
                    /\ ret.status = "ok"
                    /\ DOMAIN wire.o \subseteq {"type"}
              [] OTHER -> TRUE

RECURSIVE Typed(_, _)
\* the wire object json of the object id carries its wire type name as
\* `type`, and so do the wire objects of its children under `items`
Typed(json, id) ==
    /\ json.k = "obj"
    /\ Has(json, "type")
    /\ Get(json, "type") = JStr(heap[id].m_type_name)
    /\ (heap[id].kind = "Dictionary" /\ Has(json, "items")) =>
            \A key \in DOMAIN heap[id].attributes :
                /\ Has(Get(json, "items"), key)
                /\ Typed(Get(json, "items").o[key], heap[id].attributes[key])

\* C15: every wire object encode() or encode_summary() returns carries, at
\* every nesting level, a `type` equal to the wire type name of the instance
\* it was made of; an array summary is {type: "array", shape: [...]} and a
\* dictionary summary is {type: "dictionary"}.
TypeOnEveryNode ==
    (ret.op \in {"encode", "encode_summary"} /\ ret.status = "ok")
    => /\ Typed(wire, ret.arg)
       /\ (ret.op = "encode_summary" /\ heap[ret.arg].kind = "Array")
            => DOMAIN wire.o = {"type", "shape"}
       /\ (ret.op = "encode_summary" /\ heap[ret.arg].kind = "Dictionary")
            => wire = JObj("type" :> JStr("dictionary"))

(***************************************************************************)
(* The dispatcher and the errors of the decoders                           *)
(***************************************************************************)

\* the wire type names decode() has a decoder for
KnownTypes ==
    {"dictionary", "array"} \cup {to_dtype_name(DT) : DT \in NativeTypes}

\* the what() of the SALException decode() throws itself, as its pieces: the
\* same sentence where `type` cannot be read and where no decoder is known
\* for id
DecodeWhat(id) == <<"JSON object does not define a valid SAL attribute.">>

\* the what() of the SALException decode_array throws for an element type
\* name it has no decoder for (the quotes around the name left out)
DecodeArrayWhat(el_type_name) ==
    <<"data type string ", el_type_name, " is not supported">>

\* the message names the string s
Names(what, s) == \E i \in 1..Len(what) : what[i] = s

\* the wire objects of atomics as encode() writes them
ValidAtomicWires ==
    {AtomicWire(to_dtype_name(DT), VarOf(DT, CHOOSE v \in SampleValues(DT) : TRUE)) :
        DT \in {"int8_t", "uint64_t", "float", "bool", "std::string"}}

\* wire objects whose `type` is absent or is no string
UntypedWires ==
    {JObj("value" :> JNum("int64_t", 5)),
     JObj(("type" :> JNull) @@ ("value" :> JNum("int64_t", 5))),
     JObj(("type" :> JNum("int64_t", 5)) @@ ("value" :> JNum("int64_t", 5))),
     JObj(("type" :> JBool(TRUE)) @@ ("value" :> JNum("int64_t", 5))),
     JObj(("type" :> JArr(<<>>)) @@ ("value" :> JNum("int64_t", 5))),
     JObj(("type" :> JObj(EmptyMembers)) @@ ("value" :> JNum("int64_t", 5)))}

\* type strings decode() has no decoder for
UnknownTypes == {"null", "Int32", "signal", ""}

\* wire objects whose `type` is such a string
UnknownTypeWires == {AtomicWire(t, JNum("int64_t", 5)) : t \in UnknownTypes}

\* a full wire object of a string array of two elements
StringArrayWire ==
    JObj(("type" :> JStr("array"))
         @@ ("value" :> JObj(("type" :> JStr("string"))
                             @@ ("shape" :> ShapeList(<<2>>))
                             @@ ("encoding" :> JStr("list"))
                             @@ ("data" :> JArr(<<JStr("x"), JStr("y")>>)))))

\* a full wire object of an int32 array without `encoding`
NoEncodingWire ==
    JObj(("type" :> JStr("array"))
         @@ ("value" :> JObj(("type" :> JStr("int32"))
                             @@ ("shape" :> ShapeList(<<1>>))
                             @@ ("data" :> JB64(Base64Encode(<<5, 0, 0, 0>>))))))

\* a wire object of an int32 array whose body is under `data`, the key of
\* the documented layout, and not under `value`
DataLayoutWire ==
    JObj(("type" :> JStr("array"))
         @@ ("data" :> JObj(("type" :> JStr("int32"))
                            @@ ("shape" :> ShapeList(<<1>>))
                            @@ ("encoding" :> JStr("base64"))
                            @@ ("data" :> JB64(Base64Encode(<<5, 0, 0, 0>>))))))

\* a wire object of a dictionary whose child is under `value` and not
\* under `items`
ValueLayoutWire ==
    JObj(("type" :> JStr("dictionary"))
         @@ ("value" :> JObj("a" :> AtomicWire("int32", JNum("int64_t", 5)))))

\* wire objects of arrays
DecodeArrayWires ==
    {FullWire(el, <<1>>, Base64Encode(<<1, 0, 0, 0, 0, 0, 0, 0>>)) :
        el \in {"uint8", "int32", "float64", "bool", "string", "complex"}}
    \cup {StringArrayWire, NoEncodingWire, DataLayoutWire,
          SummaryWire("shape" :> ShapeList(<<2>>)),
          JObj(("type" :> JStr("array")) @@ ("value" :> JNum("int64_t", 5)))}

\* wire objects of dictionaries
DecodeDictionaryWires ==
    {DictionaryWire(EmptyMembers),
     JObj("type" :> JStr("dictionary")),
     ValueLayoutWire,
     DictionaryWire("a" :> AtomicWire("int32", JNum("int64_t", 5))),
     DictionaryWire("a" :> FullWire("bool", <<1>>, Base64Encode(<<1>>))),
     DictionaryWire("a" :> NoEncodingWire),
     DictionaryWire("a" :> AtomicWire("null", JNull)),
     DictionaryWire(("a" :> JNull) @@ ("b" :> JNum("int64_t", 5)))}

\* the wire objects the transport supplies to the decoders
DecodeWires ==
    ValidAtomicWires \cup UntypedWires \cup UnknownTypeWires
        \cup DecodeArrayWires \cup DecodeDictionaryWires

NextDecode ==
    \/ \E w \in DecodeWires : Receive(w)
    \/ \E ub \in UBOutcomes : CallDecode(ub)
    \/ \E ub \in UBOutcomes : CallDecodeArray(ub)
    \/ \E DT \in ArrayTypes : \E ub \in UBOutcomes : CallArrayDecode(DT, ub)
    \/ \E DT \in NativeTypes : CallAtomicDecode(DT)
    \/ \E ub \in UBOutcomes : CallDictionaryDecode(ub)

\* the application decodes the wire object it was handed with each of the
\* decoders
SpecDecode == Init /\ [][NextDecode]_vars

\* C16: the instance decode() returns for a wire object it accepts is of the
\* variant the wire `type` names: a Dictionary for "dictionary", the
\* Atomic<T> with to_dtype_name<T>() = type for an atomic name, and for
\* "array" an array whose element type name is the `type` of the payload;
\* its type_name() is the wire `type`.
VariantFollowsType ==
    (ret.op = "decode" /\ ret.status = "ok") =>
        LET o == heap[ret.id]
            _type == Get(wire, "type")
        IN  /\ _type = JStr(o.m_type_name)
            /\ _type = JStr("dictionary") => o.kind = "Dictionary"
            /\ _type = JStr("array") =>
                    /\ o.kind = "Array"
                    /\ Get(Get(wire, "value"), "type") = JStr(o.m_element_type_name)
            /\ _type.s \notin {"dictionary", "array"} =>
                    /\ o.kind = "Atomic"
                    /\ to_dtype_name(o.T) = _type.s

\* C17: decode() of a wire object whose `type` is absent or is no string
\* throws SALException, and decode() of a wire object whose `type` is a
\* string it has no decoder for ("null" is one) throws a SALException whose
\* message names that string.
UnknownTypeNamed ==
    (ret.op = "decode" /\ wire.k = "obj") =>
        LET _type == Get(wire, "type")
        IN  /\ (~Has(wire, "type") \/ _type.k # "str") =>
                    ret.status = "SALException"
            /\ (Has(wire, "type") /\ _type.k = "str" /\ _type.s \notin KnownTypes) =>
                    /\ ret.status = "SALException"
                    /\ Names(DecodeWhat(_type.s), _type.s)

\* the last call was one of the decoders and did not return an instance
DecoderFailed ==
    /\ ret.op \in {"decode", "decode_array", "Array::decode", "Atomic::decode",
                    "Dictionary::decode"}
    /\ ret.status # "ok"

\* C18: whatever a decoder fails with on a wire object reaches the caller as
\* SALException: no exception of the JSON access (a key that is not there, a
\* member of another JSON kind, a null object) leaves a decoder as it was
\* thrown, and no failure ends the process.
FailuresAreWrapped == DecoderFailed => ret.status = "SALException"

(***************************************************************************)
(* Dictionaries under set, remove, get and has                             *)
(***************************************************************************)

\* the most objects the application of the dictionary specifications builds
MaxAttributes == 2

\* the most set and remove calls it makes
MaxUpdates == 3

\* the dictionaries the application holds
Dictionaries(h) == {d \in 1..Len(h) : h[d].kind = "Dictionary"}

NextDictionary ==
    \/ NewDictionaryWithin(MaxAttributes)
    \/ NewAtomicWithin(MaxAttributes, "int32_t", 5)
    \/ \E d, child \in 1..Len(heap) : \E key \in Keys :
            SetWithin(MaxUpdates, d, key, child)
    \/ \E d \in 1..Len(heap) : \E key \in Keys : RemoveWithin(MaxUpdates, d, key)
    \/ \E d \in 1..Len(heap) : \E key \in Keys : CallGet(d, key)
    \/ \E d \in 1..Len(heap) : \E key \in Keys : CallHas(d, key)

\* the application builds dictionaries and atomics and calls set, remove,
\* get and has on the dictionaries
SpecDictionary == Init /\ [][NextDictionary]_vars

\* the step is the call `op` on the key of dictionary d
Touches(op, d, key) == ret'.op = op /\ ret'.arg = d /\ ret'.T = key

\* C19: of every dictionary d and key k, a step that is set(k, c) on d
\* leaves has(k) true and get(k) returning c, a step that is remove(k) on d
\* leaves has(k) false, and every other step (a set or remove of another
\* key or dictionary, get, has, a constructor) leaves has(k) and what
\* get(k) returns as they were; get(k) of an absent key throws
\* std::out_of_range, get of a present key returns the child, has answers
\* has(k), and get, has and remove(k) of an absent key change no object.
\* So has(k) is true exactly when the last set or remove of k was a set, and
\* get(k) then returns the attribute of that set.
DictionaryLaw ==
    [][/\ \A d \in Dictionaries(heap) : \A k \in Keys :
            IF Touches("set", d, k)
            THEN has(heap'[d], k) /\ get(heap'[d], k) = Ok(ret'.id)
            ELSE IF Touches("remove", d, k)
            THEN ~has(heap'[d], k)
            ELSE get(heap'[d], k) = get(heap[d], k)
       /\ ret'.op = "get" =>
            /\ heap' = heap
            /\ IF has(heap[ret'.arg], ret'.T)
               THEN ret'.status = "ok" /\ ret'.id = heap[ret'.arg].attributes[ret'.T]
               ELSE ret'.status = "std::out_of_range"
       /\ ret'.op = "has" =>
            heap' = heap /\ ret'.val = <<has(heap[ret'.arg], ret'.T)>>
       /\ (ret'.op = "remove" /\ ~has(heap[ret'.arg], ret'.T)) => heap' = heap
      ]_vars

\* get of an absent key has thrown, after two or more set and remove
\* calls, on a dictionary that holds the other key
AbsentKeyAsked ==
    /\ ret.op = "get"
    /\ ret.status = "std::out_of_range"
    /\ writes >= 2
    /\ heap[ret.arg].attributes # NoAttributes

(***************************************************************************)
(* The graph of attributes                                                 *)
(***************************************************************************)

\* the objects Dictionary o refers to; no other attribute refers to one
Children(h, id) ==
    IF h[id].kind = "Dictionary"
    THEN {h[id].attributes[key] : key \in DOMAIN h[id].attributes}
    ELSE {}

RECURSIVE Descendants(_, _, _)
\* the objects reached from those of ids by following at most n references
Descendants(h, ids, n) ==
    IF n = 0 THEN ids
    ELSE Descendants(h, ids \cup UNION {Children(h, id) : id \in ids}, n - 1)

\* wire objects of dictionaries, empty and with children
GraphWires ==
    {DictionaryWire(EmptyMembers),
     DictionaryWire("a" :> AtomicWire("int32", JNum("int64_t", 5))),
     DictionaryWire("a" :> DictionaryWire(EmptyMembers))}

NextGraph ==
    \/ NewDictionaryWithin(MaxAttributes)
    \/ NewAtomicWithin(MaxAttributes, "int32_t", 5)
    \/ \E w \in GraphWires : Receive(w)
    \/ \E ub \in UBOutcomes : CallDecode(ub)
    \/ \E d, child \in 1..Len(heap) : \E key \in Keys :
            SetWithin(MaxUpdates, d, key, child)
    \/ \E d \in 1..Len(heap) : \E key \in Keys : RemoveWithin(MaxUpdates, d, key)
    \/ \E d \in 1..Len(heap) : \E key \in Keys : CallGet(d, key)

\* the application builds attributes, decodes wire objects and calls set,
\* get and remove on the dictionaries it holds
SpecGraph == Init /\ [][NextGraph]_vars

\* C20: no Dictionary is reached from itself by following the references of
\* dictionaries to their children.
Acyclic ==
    \A d \in Dictionaries(heap) :
        d \notin Descendants(heap, Children(heap, d), Len(heap))

(***************************************************************************)
(* encode() of every instance                                              *)
(***************************************************************************)

\* C21: encode() of an instance the application has constructed or a
\* decoder has returned gives back a wire object: it throws nothing, does
\* not stop the process, and returns.
EncodeReturns ==
    ret.op = "encode" => ret.status = "ok" /\ ~ret.oob

(***************************************************************************)
(* The type predicates                                                     *)
(***************************************************************************)

\* what is_null, is_number, is_boolean, is_atomic, is_array, is_string,
\* is_object and is_data_object answer for the object o
Answers(o) ==
    <<is_null(o), is_number(o), is_boolean(o), is_atomic(o), is_array(o),
      is_string(o), is_object(o), is_data_object(o)>>

\* the eight predicates called on heap[id]; val holds the answers
CallIs(id) ==
    /\ Running
    /\ ret' = Outcome("is", heap[id].T, id, "ok", 0, FALSE, Answers(heap[id]))
    /\ UNCHANGED <<heap, wire, writes>>

\* a wire object of each variant decode() returns
KindWires ==
    ValidAtomicWires
        \cup {StringArrayWire,
              FullWire("uint8", <<1>>, Base64Encode(<<1>>)),
              FullWire("bool", <<1>>, Base64Encode(<<1>>)),
              DictionaryWire(EmptyMembers),
              JObj("type" :> JStr("dictionary"))}

NextKinds ==
    \/ NewNull
    \/ \E DT \in NativeTypes : NewAtomic(DT, CHOOSE v \in SampleValues(DT) : TRUE)
    \/ \E DT \in ArrayTypes : NewArray(DT, <<1>>, "continue")
    \/ NewBoolArray(<<1>>, "continue")
    \/ NewDictionary
    \/ \E w \in KindWires : Receive(w)
    \/ \E ub \in UBOutcomes : CallDecode(ub)
    \/ \E id \in 1..Len(heap) : CallIs(id)

\* the application builds or decodes an instance of a variant and asks it
\* what it is
SpecKinds == Init /\ [][NextKinds]_vars

\* C22: of every instance, is_atomic() answers true exactly when is_array(),
\* is_object() and is_null() all answer false, and is_number() answers true
\* exactly when is_array(), is_string(), is_boolean(), is_null() and
\* is_object() all answer false.
TypePredicates ==
    ret.op = "is" =>
        LET o == heap[ret.arg]
        IN  /\ ret.val = Answers(o)
            /\ ret.val[4] <=> ~(ret.val[5] \/ ret.val[7] \/ ret.val[1])
            /\ is_number(o) <=>
                    ~(is_array(o) \/ is_string(o) \/ is_boolean(o) \/ is_null(o)
                        \/ is_object(o))

\* the predicates were asked of a Bool, which is atomic and no number
BoolAsked ==
    /\ ret.op = "is"
    /\ heap[ret.arg].kind = "Atomic"
    /\ heap[ret.arg].T = "bool"
    /\ ret.val[4]
    /\ ~ret.val[2]

(***************************************************************************)
(* The element type of decoded arrays                                      *)
(***************************************************************************)

\* `wire` is a full wire object of an array whose payload names the element
\* type el
PayloadType(el) ==
    /\ wire.k = "obj"
    /\ Get(wire, "type") = JStr("array")
    /\ Has(wire, "value")
    /\ Get(wire, "value").k = "obj"
    /\ Get(Get(wire, "value"), "type") = JStr(el)

\* C23: Array<T>::decode of a full wire object whose payload names an
\* element type other than to_dtype_name<T>() throws SALException; only the
\* decode of boolean arrays, Array<uint8_t>::decode, which BoolArray
\* inherits, takes the name "bool".
ElementTypeChecked ==
    \A el \in {"uint8", "int32", "float64", "bool", "string", "complex"} :
        (/\ ret.op = "Array::decode"
         /\ PayloadType(el)
         /\ el # to_dtype_name(ret.T)
         /\ ~(el = "bool" /\ ret.T = "uint8_t")) =>
            ret.status = "SALException"

\* C24: the instance decode, decode_array or BoolArray::decode returns for a
\* wire array whose element type is "bool" has element_type_name() "bool"
\* and element_type() ATTR_BOOL, and its encode() names the element type
\* "bool" again.
BoolArrayKept ==
    (/\ ret.op \in {"decode", "decode_array", "Array::decode"}
     /\ ret.op = "Array::decode" => ret.T = "uint8_t"
     /\ PayloadType("bool")
     /\ ret.status = "ok") =>
        /\ heap[ret.id].m_element_type_name = "bool"
        /\ heap[ret.id].m_element_type = "ATTR_BOOL"
        /\ Get(Get(encode(heap, ret.id, {}, "crash").v, "value"), "type") = JStr("bool")

(***************************************************************************)
(* The key layouts of the payload                                          *)
(***************************************************************************)

\* C25: an array whose body is under `data` and a dictionary whose children
\* are under `value` decode to full instances with their payload: the
\* decoders return, the array holds its element, the dictionary its child,
\* and neither is a summary.
BothLayoutsDecoded ==
    /\ (/\ ret.op \in {"decode", "decode_array", "Array::decode"}
        /\ ret.op = "Array::decode" => ret.T = "int32_t"
        /\ wire = DataLayoutWire) =>
            /\ ret.status = "ok"
            /\ ~heap[ret.id].m_is_summary
            /\ heap[ret.id].data = <<<<5, 0, 0, 0>>>>
    /\ (/\ ret.op \in {"decode", "Dictionary::decode"}
        /\ wire = ValueLayoutWire) =>
            /\ ret.status = "ok"
            /\ ~heap[ret.id].m_is_summary
            /\ has(heap[ret.id], "a")

(***************************************************************************)
(* The element at() returns                                                *)
(***************************************************************************)

\* C26: when at() has passed its checks (it has thrown nothing), the
\* flattened index it has computed from the indices and the strides is
\* below size(): the element it returns is one of the buffer.
AtIndexInside ==
    (ret.op = "at" /\ ret.status \in {"ok", "crash"}) =>
        LET o == heap[ret.arg]
            element_index == ElementIndex(o, ret.val, 1, U64Zero)
        IN  /\ element_index.ok
            /\ Small64(element_index.v)
            /\ Nat64(element_index.v) < size(o)
            /\ ~ret.oob

(***************************************************************************)
(* Termination                                                             *)
(***************************************************************************)

\* C27: every call returns or throws: the loops of encode_shape and
\* decode_shape reach their exit condition in encode(), encode_summary()
\* and the decoders, whatever the number of dimensions of the array and the
\* length of the `shape` list of the wire object.
ShapeLoopsExit == ret.status # "no_exit"

(***************************************************************************)
(* The round trip of dictionaries                                          *)
(***************************************************************************)

RECURSIVE SameContent(_, _, _, _)
\* the objects a and b of h are of the same variant and hold the same: the
\* value of an atomic, the element type, shape and elements of an array, the
\* keys of a dictionary with the same content under each, followed n deep
SameContent(h, a, b, n) ==
    /\ h[a].kind = h[b].kind
    /\ h[a].T = h[b].T
    /\ h[a].m_type = h[b].m_type
    /\ CASE h[a].kind = "Atomic" -> h[a].m_value = h[b].m_value
         [] h[a].kind = "Array" ->
                /\ h[a].m_element_type_name = h[b].m_element_type_name
                /\ h[a].m_shape = h[b].m_shape
                /\ h[a].data = h[b].data
         [] h[a].kind = "Dictionary" ->
                /\ DOMAIN h[a].attributes = DOMAIN h[b].attributes
                /\ n > 0
                /\ \A key \in DOMAIN h[a].attributes :
                        SameContent(h, h[a].attributes[key], h[b].attributes[key], n - 1)
         [] OTHER -> TRUE

NextRoundTrip ==
    \/ NewNull
    \/ NewAtomicWithin(MaxAttributes, "std::string", "x")
    \/ NewArray("int32_t", <<2>>, "continue")
    \/ NewBoolArray(<<2>>, "continue")
    \/ NewDictionaryWithin(MaxAttributes)
    \/ \E d, child \in 1..Len(heap) : \E key \in Keys :
            SetWithin(MaxUpdates, d, key, child)
    \/ \E id \in 1..Len(heap) : \E ub \in UBOutcomes : CallEncode(id, ub)
    \/ \E ub \in UBOutcomes : DecodeWithin(MaxAttributes + 1, ub)

\* the application builds attributes, puts them into dictionaries with set,
\* encodes what it holds and decodes the wire object again
SpecRoundTrip == Init /\ [][NextRoundTrip]_vars

\* C28: where no dictionary has been put below itself, encode() of a
\* Dictionary d returns a wire object, and decode() of that wire object
\* returns a Dictionary with the keys of d whose child under each key is of
\* the variant and has the content of the child of d.
DictionaryRoundTrip ==
    Acyclic =>
        \A d \in Dictionaries(heap) :
            /\ (ret.op = "encode" /\ ret.arg = d) => ret.status = "ok"
            /\ (/\ ret.op = "decode"
                /\ encode(heap, d, {}, "crash").status = "ok"
                /\ wire = encode(heap, d, {}, "crash").v) =>
                    /\ ret.status = "ok"
                    /\ SameContent(heap, d, ret.id, Len(heap))

====
